---------------------------- MODULE Spec2Model ----------------------------
(***************************************************************************)
(* SeePitch (voice pitch visualizer): the canvas rendering engine          *)
(* (CanvasRenderer), the mode control of the floating menu, the pitch      *)
(* detector (YIN estimator, validity filter and smoothing) and the         *)
(* acquisition and render loop of the application, as a state machine.     *)
(*                                                                         *)
(* Arithmetic.  The program computes in IEEE doubles; the model computes   *)
(* in exact rational arithmetic on integers:                               *)
(*   - a frequency of the renderer is an integer number of centi-Hz;       *)
(*   - a MIDI note (view range) is an integer number of 1/NoteUnit         *)
(*     semitones, NoteUnit = 1 / panSensitivity, so that a pan by a        *)
(*     multiple of the canvas height is exact;                             *)
(*   - a detector frequency is an integer number of 1/FreqScale Hz;        *)
(*   - a timestamp is an integer number of milliseconds.                   *)
(* Rounding error of the doubles is not modelled.                          *)
(***************************************************************************)
EXTENDS Integers, Sequences, FiniteSets, TLC

VARIABLES renderer,   \* the fields of the CanvasRenderer instance
          detector,   \* the fields of the PitchDetector instance
          now,        \* the clock read by performance.now(), in ms
          hist,       \* history of the run, read only by the properties
          app         \* the fields of the VoicePitchVisualizer instance, its
                      \* microphone and the animation frames it has requested

vars == <<renderer, detector, now, hist, app>>

-----------------------------------------------------------------------------
(* Bounds of the model *)

\* A gesture leaves the centre of the view within MaxDrift semitones of the
\* initial centre.
MaxDrift == 1
\* The clock stops after MaxViewTicks, MaxAutoTicks, MaxModeTicks,
\* MaxGraphTicks steps of the specifications SpecView, SpecAuto, SpecMode,
\* SpecGraph, and after MaxWindowSec seconds of the specification SpecWindow.
MaxViewTicks == 11
MaxAutoTicks == 22
MaxModeTicks == 5
MaxWindowSec == 12
MaxGraphTicks == 7
\* At most MaxChain voiced frames are smoothed one after another.
MaxChain == 3
\* The history counts up to MaxGap unvoiced frames in a row.
MaxGap == 2
\* A buffer holds at most MaxBuffer samples.
MaxBuffer == 8
\* The start button is clicked at most MaxStarts times, and loop runs at
\* most MaxLoopTicks times.
MaxStarts == 1
\* A MIDI number passed to getNoteRange is within -MaxNote..MaxNote.
MaxNote == 7
\* A string passed to parseNoteString has at most MaxNoteString characters.
MaxNoteString == 3
\* The buffer of a sine holds at most MaxPeriods periods.
MaxPeriods == 5
\* An argument of setGapThreshold is within -MaxThreshold and MaxThreshold,
\* and the clock stops after MaxGapTicks steps of the specification SpecGap.
MaxThreshold == 3
MaxGapTicks == 4
\* The clock stops after MaxClearTicks steps of the specification SpecClear.
MaxClearTicks == 21
\* The clock stops after MaxRateTicks steps of the specification SpecRate.
MaxRateTicks == 64
\* The clock stops after MaxLoopTicks calls of loop in the specification
\* SpecLoop, whose zoom gestures keep the width of the view within
\* MaxLoopWidth semitones of the constructor's.
MaxLoopTicks == 2
MaxLoopWidth == 8
\* In the specification SpecStart at most MaxPending calls of start() await
\* the microphone at a time, and the clock stops after MaxStartTicks calls
\* of loop.
\* The clock stops after MaxSecondsTicks steps of the specification
\* SpecSeconds.
MaxSecondsTicks == 6
MaxPending == 2
MaxStartTicks == 4

-----------------------------------------------------------------------------
(* JavaScript values and Math *)

\* null (frequency of an unvoiced sample, unset range bound, unset last pitch)
Null == -1

\* NaN, where a frequency is expected
NaN == -2

\* if (x): neither null, nor 0, nor NaN
Truthy(x) == x # Null /\ x # 0 /\ x # NaN

MathMax(a, b) == IF a >= b THEN a ELSE b
MathMin(a, b) == IF a <= b THEN a ELSE b

\* Math.round(num / den) for den > 0: the nearest integer, halves upward
MathRound(num, den) == (2 * num + den) \div (2 * den)

RECURSIVE IntPow(_, _)
IntPow(b, e) == IF e = 0 THEN 1 ELSE b * IntPow(b, e - 1)

RECURSIVE SeqSum(_)
SeqSum(s) == IF s = << >> THEN 0 ELSE Head(s) + SeqSum(Tail(s))

Abs(x) == IF x < 0 THEN -x ELSE x

-----------------------------------------------------------------------------
(* Note converter *)

\* hzToMidi(f) = 12 * log2(f / 440) + 69, through its rounding: entry i is
\* the least frequency, in milli-Hz, whose MIDI number is >= LowestNote + i
\* - 1/2, that is ceil(440000 * 2^((LowestNote + i - 69.5) / 12)).
LowestNote == 23
HalfSemitoneBoundary ==
    << 31773, 33662, 35664, 37784, 40031, 42411, 44933, 47605,
       50436, 53435, 56612, 59978, 63545, 67323, 71327, 75568,
       80061, 84822, 89866, 95210, 100871, 106869, 113224, 119956,
       127089, 134646, 142653, 151135, 160122, 169644, 179731, 190419,
       201741, 213738, 226447, 239912, 254178, 269292, 285305, 302270,
       320244, 339287, 359462, 380837, 403482, 427475, 452893, 479824,
       508356, 538584, 570610, 604540, 640488, 678573, 718923, 761673,
       806964, 854949, 905786, 959647, 1016711, 1077168, 1141219, 1209080,
       1280975, 1357146, 1437846, 1523345, 1613928, 1709897, 1811572, 1919294,
       2033421, 2154335, 2282438, 2418159, 2561950, 2714292 >>

\* Math.round(hzToMidi(num / den)) for a frequency of num / den centi-Hz
\* that is a whole number of milli-Hz, between 31.773 Hz and 2714.292 Hz.
RoundHzToMidi(num, den) ==
    LET above == {i \in 1..Len(HalfSemitoneBoundary) :
                     HalfSemitoneBoundary[i] * den <= 10 * num}
    IN  LowestNote + Cardinality(above)

-----------------------------------------------------------------------------
(* CanvasRenderer *)

\* window.innerHeight, in px
Height == 800

\* panSensitivity = 0.05 = 1 / PanSensitivityInv
PanSensitivityInv == 20
\* one semitone, in units of the view range
NoteUnit == PanSensitivityInv

\* rangeInSemitones of performAutoRange
RangeInSemitones == 36
\* the clamp of zoom
MinRange == 6
MaxRange == 120
\* the zoom base 1.2 = ZoomBaseNum / ZoomBaseDen
ZoomBaseNum == 6
ZoomBaseDen == 5

Modes == {"normal", "target", "range"}

\* the constructor
NewRenderer ==
    [ timeWindow           |-> 10,
      minMidiNote          |-> 48 * NoteUnit,
      maxMidiNote          |-> 84 * NoteUnit,
      autoRangeEnabled     |-> TRUE,
      hasAutoRanged        |-> FALSE,
      autoRangeSamples     |-> << >>,
      autoRangeSampleCount |-> 10,
      pitchData            |-> << >>,
      maxDataPoints        |-> 600,
      gapThreshold         |-> 3,
      mode                 |-> "normal",
      targetFrequency      |-> Null,
      rangeMin             |-> Null,
      rangeMax             |-> Null ]

\* performAutoRange: Math.round(centerMidi -+ rangeInSemitones / 2), where
\* round(x + k) = round(x) + k for the integer k = 18
performAutoRange(r) ==
    IF Len(r.autoRangeSamples) = 0 THEN r
    ELSE LET centerMidi == RoundHzToMidi(SeqSum(r.autoRangeSamples),
                                         Len(r.autoRangeSamples))
         IN  [r EXCEPT
                !.minMidiNote = (centerMidi - RangeInSemitones \div 2) * NoteUnit,
                !.maxMidiNote = (centerMidi + RangeInSemitones \div 2) * NoteUnit]

\* a faulty variant: the sample is collected also after auto-ranging
collects_always(r, frequency) ==
    Truthy(frequency) /\ r.autoRangeEnabled

\* addPitchData, "Auto-range on first valid pitches": whether the sample is collected
collects(r, frequency) ==
    Truthy(frequency) /\ r.autoRangeEnabled /\ ~r.hasAutoRanged

\* a faulty variant: auto-ranging one sample late
autoRangeDue_late(r) ==
    Len(r.autoRangeSamples) > r.autoRangeSampleCount

\* addPitchData: whether enough samples are collected to auto-range
autoRangeDue(r) ==
    Len(r.autoRangeSamples) >= r.autoRangeSampleCount

\* addPitchData: the auto-ranging step
autoRangeStep(r, frequency) ==
    IF collects(r, frequency)
    THEN LET r0 == [r EXCEPT !.autoRangeSamples = Append(@, frequency)]
         IN  IF autoRangeDue(r0)
             THEN [performAutoRange(r0) EXCEPT !.hasAutoRanged = TRUE]
             ELSE r0
    ELSE r

\* a faulty variant: the maximum is updated only when the minimum is not
trackRange_elseIf(r, frequency) ==
    IF Truthy(frequency) /\ r.mode = "range"
    THEN IF r.rangeMin = Null \/ frequency < r.rangeMin
         THEN [r EXCEPT !.rangeMin = frequency]
         ELSE IF r.rangeMax = Null \/ frequency > r.rangeMax
              THEN [r EXCEPT !.rangeMax = frequency] ELSE r
    ELSE r

\* addPitchData, "Update range tracking"
trackRange(r, frequency) ==
    IF Truthy(frequency) /\ r.mode = "range"
    THEN LET r0 == IF r.rangeMin = Null \/ frequency < r.rangeMin
                   THEN [r EXCEPT !.rangeMin = frequency] ELSE r
         IN  IF r0.rangeMax = Null \/ frequency > r0.rangeMax
             THEN [r0 EXCEPT !.rangeMax = frequency] ELSE r0
    ELSE r

\* a faulty variant: the sample at the cutoff is kept
retained_inclusive(d, cutoffTime) == d.timestamp >= cutoffTime

\* addPitchData: the filter of the trim
retained(d, cutoffTime) == d.timestamp > cutoffTime

\* addPitchData, "Trim old data based on time window"
trim(r, timestamp) ==
    LET cutoffTime == timestamp - (r.timeWindow * 1000)
    IN  [r EXCEPT !.pitchData = SelectSeq(@, LAMBDA d : retained(d, cutoffTime))]

\* a faulty variant: the sample is put in front of the data (unshift)
addPitchData_front(r, frequency, timestamp) ==
    LET r1 == autoRangeStep(r, frequency)
        r2 == [r1 EXCEPT !.pitchData =
                  << [frequency |-> frequency, timestamp |-> timestamp] >> \o @]
        r3 == trackRange(r2, frequency)
    IN  trim(r3, timestamp)

\* addPitchData(frequency), with timestamp = performance.now()
addPitchData(r, frequency, timestamp) ==
    LET r1 == autoRangeStep(r, frequency)
        r2 == [r1 EXCEPT !.pitchData =
                  Append(@, [frequency |-> frequency, timestamp |-> timestamp])]
        r3 == trackRange(r2, frequency)
    IN  trim(r3, timestamp)

\* a faulty variant: the samples collected for auto-ranging are kept
clearData_keepsPending(r) ==
    [r EXCEPT !.pitchData = << >>,
              !.rangeMin = Null,
              !.rangeMax = Null,
              !.hasAutoRanged = FALSE]

clearData(r) ==
    [r EXCEPT !.pitchData = << >>,
              !.rangeMin = Null,
              !.rangeMax = Null,
              !.hasAutoRanged = FALSE,
              !.autoRangeSamples = << >>]

\* a faulty variant: the new window empties the data
setTimeWindow_clears(r, seconds) ==
    [r EXCEPT !.timeWindow = seconds,
              !.maxDataPoints = seconds * 60,
              !.pitchData = << >>]

setTimeWindow(r, seconds) ==
    [r EXCEPT !.timeWindow = seconds,
              !.maxDataPoints = seconds * 60]

\* a faulty variant: every mode switch clears the data
setMode_clears(r, mode) ==
    clearData([r EXCEPT !.mode = mode])

setMode(r, mode) ==
    LET r0 == [r EXCEPT !.mode = mode]
    IN  IF mode # "range"
        THEN [r0 EXCEPT !.rangeMin = Null, !.rangeMax = Null]
        ELSE r0

setTargetFrequency(r, frequency) ==
    [r EXCEPT !.targetFrequency = frequency]

\* a faulty variant: the threshold is rounded and not clamped
setGapThreshold_unclamped(r, num, den) ==
    [r EXCEPT !.gapThreshold = MathRound(num, den)]

\* setGapThreshold(threshold) for the threshold num / den, den > 0:
\* Math.max(1, Math.round(threshold))
setGapThreshold(r, num, den) ==
    [r EXCEPT !.gapThreshold = MathMax(1, MathRound(num, den))]

\* zoom: Math.pow(1.2, delta) as the fraction n / d, for an integer delta
zoomFactor(delta) ==
    IF delta >= 0
    THEN [n |-> IntPow(ZoomBaseNum, delta), d |-> IntPow(ZoomBaseDen, delta)]
    ELSE [n |-> IntPow(ZoomBaseDen, -delta), d |-> IntPow(ZoomBaseNum, -delta)]

\* a faulty variant: zoom without the clamp
clampRange_none(newRange, d) == newRange

\* zoom, "Clamp to reasonable bounds": newRange, in units of 1 / d
clampRange(newRange, d) ==
    MathMax(MinRange * NoteUnit * d, MathMin(MaxRange * NoteUnit * d, newRange))

\* zoom(delta): with z = zoomFactor(delta), newRange is nr / z.d and the
\* new bounds are Math.round((maxMidiNote + minMidiNote) / 2 -+ newRange / 2)
zoom(r, delta) ==
    LET z == zoomFactor(delta)
        currentRange == r.maxMidiNote - r.minMidiNote
        nr == clampRange(currentRange * z.n, z.d)
        center2 == (r.maxMidiNote + r.minMidiNote) * z.d
    IN  [r EXCEPT
           !.minMidiNote = MathRound(center2 - nr, 2 * z.d * NoteUnit) * NoteUnit,
           !.maxMidiNote = MathRound(center2 + nr, 2 * z.d * NoteUnit) * NoteUnit]

\* pan: midiDelta = (deltaY / height) * currentRange * panSensitivity
midiDelta(r, deltaY) ==
    (deltaY * (r.maxMidiNote - r.minMidiNote)) \div (Height * PanSensitivityInv)

\* a faulty variant: the upper bound moves by the pixel delta scaled to the
\* height only
pan_unscaled(r, deltaY) ==
    [r EXCEPT !.minMidiNote = @ - midiDelta(r, deltaY),
              !.maxMidiNote = @ - (deltaY * NoteUnit) \div Height]

pan(r, deltaY) ==
    [r EXCEPT !.minMidiNote = @ - midiDelta(r, deltaY),
              !.maxMidiNote = @ - midiDelta(r, deltaY)]

-----------------------------------------------------------------------------
(* The grid of notes *)

NOTE_NAMES == <<"C", "C#", "D", "D#", "E", "F", "F#", "G", "G#", "A", "A#", "B">>

\* NOTE_NAMES[midi % 12] for a MIDI number midi in units of the view range:
\* undefined when the index is not a whole number, or negative (the sign of
\* midi % 12 is the sign of midi)
noteName(midi) ==
    IF midi % NoteUnit = 0 /\ (midi >= 0 \/ midi % (12 * NoteUnit) = 0)
    THEN NOTE_NAMES[((midi \div NoteUnit) % 12) + 1]
    ELSE "undefined"

\* the entry with the note index as its MIDI number
noteInfo_index(midi) ==
    [ note       |-> noteName(midi),
      octave     |-> midi \div (12 * NoteUnit) - 1,
      midiNumber |-> midi % (12 * NoteUnit) ]

\* the entry getNoteRange pushes for midi
noteInfo(midi) ==
    [ note       |-> noteName(midi),
      octave     |-> midi \div (12 * NoteUnit) - 1,
      midiNumber |-> midi ]

\* getNoteRange: for (midi = minMidiNumber; midi <= maxMidiNumber; midi++)
RECURSIVE getNoteRange(_, _)
getNoteRange(minMidiNumber, maxMidiNumber) ==
    IF minMidiNumber > maxMidiNumber THEN << >>
    ELSE << noteInfo(minMidiNumber) >>
           \o getNoteRange(minMidiNumber + NoteUnit, maxMidiNumber)

\* NOTE_NAMES.indexOf(note)
indexOf(note) ==
    IF \E i \in 1..Len(NOTE_NAMES) : NOTE_NAMES[i] = note
    THEN (CHOOSE i \in 1..Len(NOTE_NAMES) : NOTE_NAMES[i] = note) - 1
    ELSE -1

\* a faulty variant: the index is used as it is
noteToHz_unchecked(note, octave) ==
    [threw |-> FALSE, midiNumber |-> (octave + 1) * 12 + indexOf(note)]

\* noteToHz: an Error for a note that is not in NOTE_NAMES, or else the
\* frequency 440 * 2^((midiNumber - 69) / 12), which the model represents
\* by midiNumber
noteToHz(note, octave) ==
    IF indexOf(note) = -1
    THEN [threw |-> TRUE, midiNumber |-> Null]
    ELSE [threw |-> FALSE, midiNumber |-> (octave + 1) * 12 + indexOf(note)]

\* the characters [A-G] and \d of the pattern of parseNoteString
Letters == {"A", "B", "C", "D", "E", "F", "G"}
Digits == {"0", "1", "2", "3", "4", "5", "6", "7", "8", "9"}
DigitValue ==
    [c \in Digits |->
       CHOOSE v \in 0..9 : <<"0", "1", "2", "3", "4", "5", "6", "7", "8", "9">>[v + 1] = c]

\* noteString.match(/^([A-G]#?)(\d+)$/) on a string given as the sequence
\* of its characters: the groups note and octaveStr of a match
NoMatch == [matched |-> FALSE, note |-> "", octaveStr |-> << >>]
match(noteString) ==
    IF Len(noteString) = 0 \/ noteString[1] \notin Letters THEN NoMatch
    ELSE LET sharp == Len(noteString) >= 2 /\ noteString[2] = "#"
             first == IF sharp THEN 3 ELSE 2
         IN  IF /\ first <= Len(noteString)
                /\ \A i \in first..Len(noteString) : noteString[i] \in Digits
             THEN [ matched   |-> TRUE,
                    note      |-> IF sharp THEN noteString[1] \o "#"
                                           ELSE noteString[1],
                    octaveStr |-> SubSeq(noteString, first, Len(noteString)) ]
             ELSE NoMatch

\* parseInt(octaveStr, 10) on a sequence of digits
RECURSIVE parseInt(_)
parseInt(octaveStr) ==
    IF octaveStr = << >> THEN 0
    ELSE 10 * parseInt(SubSeq(octaveStr, 1, Len(octaveStr) - 1))
           + DigitValue[octaveStr[Len(octaveStr)]]

\* parseNoteString: an Error when the pattern does not match
parseNoteString(noteString) ==
    IF ~match(noteString).matched
    THEN [threw |-> TRUE, midiNumber |-> Null]
    ELSE noteToHz(match(noteString).note, parseInt(match(noteString).octaveStr))

\* drawNoteLabels: noteInfo.note.includes('#') throws a TypeError when the
\* note is undefined
drawNoteLabels(r) ==
    LET notes == getNoteRange(r.minMidiNote, r.maxMidiNote)
    IN  IF \E i \in 1..Len(notes) : notes[i].note = "undefined"
        THEN "TypeError" ELSE "done"

\* render: drawGrid, then drawNoteLabels, then the overlay of the mode and
\* drawPitchGraph, of which drawNoteLabels alone can throw
render(r) == drawNoteLabels(r)

\* a faulty variant: the line breaks one unvoiced sample late
sustainedGap_late(consecutiveNulls, gapThreshold, isDrawing) ==
    consecutiveNulls > gapThreshold /\ isDrawing

\* drawPitchGraph, "Only break line if we have a sustained gap"
sustainedGap(consecutiveNulls, gapThreshold, isDrawing) ==
    consecutiveNulls >= gapThreshold /\ isDrawing

\* drawPitchGraph: the body of the forEach for the sample of index i.  The
\* pen holds isDrawing, consecutiveNulls, the current path (the indices of
\* the samples it visits) and the paths stroked so far.
drawPoint(r, pen, i) ==
    IF ~Truthy(r.pitchData[i].frequency)
    THEN LET nulls == pen.consecutiveNulls + 1
         IN  IF sustainedGap(nulls, r.gapThreshold, pen.isDrawing)
             THEN [ isDrawing        |-> FALSE,             \* stroke, beginPath
                    consecutiveNulls |-> nulls,
                    path             |-> << >>,
                    stroked          |-> Append(pen.stroked, pen.path) ]
             ELSE [pen EXCEPT !.consecutiveNulls = nulls]
    ELSE [pen EXCEPT !.consecutiveNulls = 0,
                     !.isDrawing = TRUE,                    \* moveTo or lineTo
                     !.path = Append(@, i)]

RECURSIVE drawFrom(_, _, _)
drawFrom(r, pen, i) ==
    IF i > Len(r.pitchData) THEN pen
    ELSE drawFrom(r, drawPoint(r, pen, i), i + 1)

\* drawPitchGraph: the paths it strokes, oldest first
drawPitchGraph(r) ==
    IF Len(r.pitchData) < 2 THEN << >>
    ELSE LET pen == drawFrom(r, [ isDrawing        |-> FALSE,
                                  consecutiveNulls |-> 0,
                                  path             |-> << >>,
                                  stroked          |-> << >> ], 1)
         IN  IF pen.isDrawing THEN Append(pen.stroked, pen.path) ELSE pen.stroked

-----------------------------------------------------------------------------
(* PitchDetector *)

\* one Hz, in units of the detector's frequencies
FreqScale == IntPow(10, MaxChain)

\* smoothingFactor = 0.3 = 3 / SmoothingDen
SmoothingDen == 10

\* "Filter out unrealistic frequencies", in Hz: 50 in the hybrid detector
\* (FFT first, YIN as fallback), 60 in the YIN-only detector
MinPitchHybrid == 50
MinPitchYin == 60
MaxPitch == 2000

\* the constructor of the detector of the given source file: "hybrid" is
\* the detector with the FFT path and the YIN fallback, "yin" the YIN-only one
NewDetector(file) ==
    [ file            |-> file,
      sampleRate      |-> 44100,
      threshold       |-> IF file = "hybrid" THEN 15 ELSE 10,  \* hundredths
      smoothingFactor |-> 3,                                   \* tenths
      lastPitch       |-> Null ]

\* the constructor called with the sample rate of the microphone
NewDetectorAt(file, sampleRate) ==
    [NewDetector(file) EXCEPT !.sampleRate = sampleRate]

\* A value of the cmndf array, a refined period or a raw estimate is a
\* fraction <<n, d>> with d >= 0: n / d for d > 0, NaN for <<0, 0>>,
\* Infinity for <<1, 0>>.
NaNQ == <<0, 0>>
InfinityQ == <<1, 0>>

\* a < b of two values of the cmndf array: false when either is NaN
Less(a, b) == a[2] # 0 /\ b[2] # 0 /\ a[1] * b[2] < b[1] * a[2]

RECURSIVE GCD(_, _)
GCD(a, b) == IF b = 0 THEN a ELSE GCD(b, a % b)

\* the fraction n / d, d # 0, in lowest terms with a positive denominator
Fraction(n, d) ==
    LET g == GCD(Abs(n), Abs(d))
    IN  IF d > 0 THEN <<n \div g, d \div g>> ELSE <<(-n) \div g, (-d) \div g>>

\* f[0] + ... + f[n]
RECURSIVE SumTo(_, _)
SumTo(f, n) == IF n < 0 THEN 0 ELSE f[n] + SumTo(f, n - 1)

\* the array of the elements f[0], ..., f[n]
RECURSIVE ArrayOf(_, _)
ArrayOf(f, n) == IF n < 0 THEN << >> ELSE ArrayOf(f, n - 1) @@ (n :> f[n])

\* a faulty variant: the length is rounded upward
yinLength_ceil(buffer) == (Len(buffer) + 1) \div 2

\* new Float32Array(buffer.length / 2): the length is truncated
yinLength(buffer) == Len(buffer) \div 2

\* _differenceFunction: the indices of buffer that its loops read, buffer[i]
\* and buffer[i + tau]
differenceReads(buffer) ==
    LET W == yinLength(buffer)
    IN  UNION {{i, i + tau} : i \in 0..(W - 1), tau \in 0..(W - 1)}

\* _differenceFunction (step 1 of YIN); buffer[i] of the code is
\* buffer[i + 1] of the sequence
differenceFunction(buffer) ==
    LET W == yinLength(buffer)
        sum(tau) ==
           LET delta(i) == buffer[i + 1] - buffer[i + tau + 1]
           IN  SumTo([i \in 0..(W - 1) |-> delta(i) * delta(i)], W - 1)
    IN  ArrayOf([tau \in 0..(W - 1) |-> sum(tau)], W - 1)

\* a faulty variant: 0 / 0 is taken to be 0
cumulativeMeanNormalizedDifference_zero(yinBuffer) ==
    LET cmndf(tau) ==
          IF tau = 0 THEN <<1, 1>>
          ELSE LET runningSum == SumTo(yinBuffer, tau) - yinBuffer[0]
               IN  IF runningSum = 0 THEN <<0, 1>>
                   ELSE Fraction(yinBuffer[tau] * tau, runningSum)
    IN  ArrayOf([tau \in DOMAIN yinBuffer |-> cmndf(tau)],
                Cardinality(DOMAIN yinBuffer) - 1)

\* _cumulativeMeanNormalizedDifference (step 2 of YIN): cmndf[tau] =
\* yinBuffer[tau] / (runningSum / tau); while runningSum is 0 so is
\* yinBuffer[tau], and 0 / 0 is NaN
cumulativeMeanNormalizedDifference(yinBuffer) ==
    LET cmndf(tau) ==
          IF tau = 0 THEN <<1, 1>>
          ELSE LET runningSum == SumTo(yinBuffer, tau) - yinBuffer[0]
               IN  IF runningSum = 0 THEN NaNQ
                   ELSE Fraction(yinBuffer[tau] * tau, runningSum)
    IN  ArrayOf([tau \in DOMAIN yinBuffer |-> cmndf(tau)],
                Cardinality(DOMAIN yinBuffer) - 1)

\* a faulty variant: the search starts at 0
minTau_zero(d) == 0

\* _absoluteThreshold, minTau: Math.floor(sampleRate / 1000) in the hybrid
\* detector, Math.floor(sampleRate / 2000) in the YIN-only detector
minTau(d) == d.sampleRate \div (IF d.file = "hybrid" THEN 1000 ELSE 2000)

\* _absoluteThreshold, "Find local minimum"
RECURSIVE localMinimum(_, _)
localMinimum(cmndf, tau) ==
    IF (tau + 1) \in DOMAIN cmndf /\ Less(cmndf[tau + 1], cmndf[tau])
    THEN localMinimum(cmndf, tau + 1)
    ELSE tau

\* a faulty variant: the first tau below the threshold is returned
absoluteThreshold_first(d, cmndf) ==
    LET below == {tau \in DOMAIN cmndf :
                     tau >= minTau(d) /\ Less(cmndf[tau], <<d.threshold, 100>>)}
    IN  IF below = {} THEN -1
        ELSE CHOOSE tau \in below : \A t \in below : tau <= t

\* _absoluteThreshold (step 3 of YIN): the local minimum after the first
\* tau from minTau on with cmndf[tau] < threshold, or -1
absoluteThreshold(d, cmndf) ==
    LET below == {tau \in DOMAIN cmndf :
                     tau >= minTau(d) /\ Less(cmndf[tau], <<d.threshold, 100>>)}
    IN  IF below = {} THEN -1
        ELSE localMinimum(cmndf, CHOOSE tau \in below : \A t \in below : tau <= t)

\* _parabolicInterpolation (step 4 of YIN): tau + (s2 - s0) / (2 * (2 * s1
\* - s2 - s0)), with the three values brought to their common denominator
parabolicInterpolation(cmndf, tau) ==
    IF tau = 0 \/ (tau + 1) \notin DOMAIN cmndf THEN <<tau, 1>>
    ELSE LET s0 == cmndf[tau - 1]
             s1 == cmndf[tau]
             s2 == cmndf[tau + 1]
             n0 == s0[1] * s1[2] * s2[2]
             n1 == s1[1] * s0[2] * s2[2]
             n2 == s2[1] * s0[2] * s1[2]
             num == n2 - n0
             den == 2 * (2 * n1 - n2 - n0)
         IN  IF s0[2] = 0 \/ s1[2] = 0 \/ s2[2] = 0 THEN NaNQ
             ELSE IF den = 0
                  THEN (IF num = 0 THEN NaNQ
                        ELSE IF num > 0 THEN InfinityQ ELSE <<-1, 0>>)
                  ELSE Fraction(tau * den + num, den)

\* _parabolicInterpolation: the indices of cmndf that it reads
interpolationReads(cmndf, tau) ==
    IF tau = 0 \/ (tau + 1) \notin DOMAIN cmndf THEN {}
    ELSE {tau - 1, tau, tau + 1}

\* sampleRate / betterTau
periodToFrequency(d, betterTau) ==
    IF betterTau[2] = 0
    THEN (IF betterTau[1] = 0 THEN NaNQ ELSE <<0, 1>>)
    ELSE IF betterTau[1] = 0 THEN InfinityQ
    ELSE Fraction(d.sampleRate * betterTau[2], betterTau[1])

\* whether the model represents the frequency pitch, a fraction, exactly:
\* it is not a number, or a whole number of 1/FreqScale Hz
pitchExact(pitch) ==
    pitch[2] = 0 \/ ((pitch[1] % pitch[2]) * FreqScale) % pitch[2] = 0

\* the frequency pitch, a fraction, in units of 1/FreqScale Hz: rounded
\* away from MaxPitch when it is above it, and downward otherwise, so that
\* it lies on the same side of each bound of the filters; Infinity becomes
\* a frequency above MaxPitch and a negative frequency becomes 0, which
\* the filters reject alike
toFrequency(pitch) ==
    IF pitch = NaNQ THEN NaN
    ELSE IF pitch[2] = 0
         THEN (IF pitch[1] > 0 THEN (MaxPitch + 1) * FreqScale ELSE 0)
    ELSE IF pitch[1] < 0 THEN 0
    ELSE LET whole == pitch[1] \div pitch[2]
             rest  == (pitch[1] % pitch[2]) * FreqScale
             down  == whole * FreqScale + rest \div pitch[2]
         IN  IF whole >= MaxPitch /\ rest % pitch[2] # 0 THEN down + 1 ELSE down

\* steps 1 to 4 of YIN and the conversion of the period to a frequency:
\* the period found, -1 when there is none, and the frequency, a fraction
estimate(d, buffer) ==
    LET cmndf == cumulativeMeanNormalizedDifference(differenceFunction(buffer))
        tau == absoluteThreshold(d, cmndf)
    IN  [tau   |-> tau,
         pitch |-> IF tau = -1 THEN NaNQ
                   ELSE periodToFrequency(d, parabolicInterpolation(cmndf, tau))]

\* the raw estimate of the frame, Null when no period is found
rawEstimate(est) ==
    IF est.tau = -1 THEN Null ELSE toFrequency(est.pitch)

\* whether the model represents the raw estimate of the frame exactly
rawExact(est) ==
    IF est.tau = -1 THEN TRUE ELSE pitchExact(est.pitch)

\* a faulty variant: the weights of the smoothing swapped
smooth_swapped(lastPitch, pitch, smoothingFactor) ==
    (lastPitch * (SmoothingDen - smoothingFactor) + pitch * smoothingFactor)
      \div SmoothingDen

\* lastPitch * smoothingFactor + pitch * (1 - smoothingFactor)
smooth(lastPitch, pitch, smoothingFactor) ==
    IF lastPitch = NaN \/ pitch = NaN \/ smoothingFactor = NaN THEN NaN
    ELSE (lastPitch * smoothingFactor + pitch * (SmoothingDen - smoothingFactor))
           \div SmoothingDen

\* whether the model represents smooth(lastPitch, pitch, smoothingFactor) exactly
smoothExact(lastPitch, pitch, smoothingFactor) ==
    \/ lastPitch = NaN
    \/ pitch = NaN
    \/ smoothingFactor = NaN
    \/ (lastPitch * smoothingFactor + pitch * (SmoothingDen - smoothingFactor))
          % SmoothingDen = 0

\* the plausibility filter of _detectPitchYIN (hybrid) and detectPitch (yin);
\* both comparisons are false of NaN
unrealistic(d, pitch) ==
    /\ pitch # NaN
    /\ \/ pitch < FreqScale * (IF d.file = "hybrid" THEN MinPitchHybrid ELSE MinPitchYin)
       \/ pitch > FreqScale * MaxPitch

\* a faulty variant: an unvoiced frame clears lastPitch
detectPitchYIN_forgets(d, raw) ==
    IF raw = Null \/ unrealistic(d, raw)
    THEN [d |-> [d EXCEPT !.lastPitch = Null], ret |-> Null]
    ELSE LET pitch == IF d.lastPitch # Null
                      THEN smooth(d.lastPitch, raw, d.smoothingFactor)
                      ELSE raw
         IN  [d |-> [d EXCEPT !.lastPitch = pitch], ret |-> pitch]

\* _detectPitchYIN of the hybrid detector and detectPitch of the YIN-only
\* detector, from step 4 on: raw is sampleRate / betterTau, or Null when
\* _absoluteThreshold found no period (tau = -1).  The result is the
\* detector after the call and the value returned.
detectPitchYIN(d, raw) ==
    IF raw = Null THEN [d |-> d, ret |-> Null]
    ELSE IF unrealistic(d, raw) THEN [d |-> d, ret |-> Null]
    ELSE LET pitch == IF d.lastPitch # Null
                      THEN smooth(d.lastPitch, raw, d.smoothingFactor)
                      ELSE raw
         IN  [d |-> [d EXCEPT !.lastPitch = pitch], ret |-> pitch]

\* detectPitch, "Apply smoothing", of the hybrid detector: the value that
\* _detectPitchYIN returned is smoothed against the detector it left
smoothAgain(d, pitch) ==
    IF Truthy(pitch) /\ d.lastPitch # Null
    THEN smooth(d.lastPitch, pitch, d.smoothingFactor)
    ELSE pitch

\* detectPitch(buffer) of the hybrid detector, called without an analyser
\* (as the loop calls it), so that the FFT path is skipped
detectPitchHybrid(d, raw) ==
    LET yin == detectPitchYIN(d, raw)
        pitch0 == yin.ret
    IN  IF Truthy(pitch0) /\ (pitch0 < FreqScale * MinPitchHybrid
                                \/ pitch0 > FreqScale * MaxPitch)
        THEN [d |-> yin.d, ret |-> Null]
        ELSE LET pitch == smoothAgain(yin.d, pitch0)
             IN  [d   |-> IF Truthy(pitch)
                          THEN [yin.d EXCEPT !.lastPitch = pitch] ELSE yin.d,
                  ret |-> pitch]

\* detectPitch(buffer) of either detector
detectPitch(d, raw) ==
    IF d.file = "hybrid" THEN detectPitchHybrid(d, raw) ELSE detectPitchYIN(d, raw)

\* whether the model represents every smoothing of the call exactly
detectExact(d, raw) ==
    \/ raw = Null
    \/ unrealistic(d, raw)
    \/ d.lastPitch = Null
    \/ smoothExact(d.lastPitch, raw, d.smoothingFactor)

\* setSmoothingFactor: Math.max(0, Math.min(1, factor)) for a factor in
\* tenths; Math.min and Math.max return NaN when an argument is NaN
setSmoothingFactor(d, factor) ==
    [d EXCEPT !.smoothingFactor =
       IF factor = NaN THEN NaN ELSE MathMax(0, MathMin(SmoothingDen, factor))]

\* the sensitivity input listener of the floating menu, for a detector
\* that exists: threshold = 0.3 - ((value + 120) / 80) * 0.25, in hundredths
sensitivityInput(d, value) ==
    [d EXCEPT !.threshold = 30 - ((value + 120) * 25) \div 80]

\* a faulty variant: reset keeps lastPitch
reset_keeps(d) == d

reset(d) == [d EXCEPT !.lastPitch = Null]

-----------------------------------------------------------------------------
(* FloatingMenu *)

\* parseTargetNote: the frequency of an option of the target note select
parseTargetNote(noteString) ==
    CASE noteString = "C4" -> 26163
      [] noteString = "A4" -> 44000
      [] OTHER -> 44000

\* a faulty variant: the data is not cleared on the switch to range mode
visualModeChange_noClear(r, mode, targetNote) ==
    LET r1 == setMode(r, mode)
    IN  IF mode = "target"
        THEN setTargetFrequency(r1, parseTargetNote(targetNote))
        ELSE r1

\* the visualMode change listener: setMode, then updateTargetPitch for
\* 'target' and clearData for 'range'
visualModeChange(r, mode, targetNote) ==
    LET r1 == setMode(r, mode)
        r2 == IF mode = "target"
              THEN setTargetFrequency(r1, parseTargetNote(targetNote))
              ELSE r1
    IN  IF mode = "range" THEN clearData(r2) ELSE r2

-----------------------------------------------------------------------------
(* ZoomHandler.  A touch event e is given by e.touches: its length, the    *)
(* clientY of the first touch and, for two touches, their distance.        *)

NoTouches == [length |-> 0, clientY |-> 0, distance |-> 0]

\* the constructor
NewZoomHandler ==
    [ touches      |-> NoTouches,
      lastDistance |-> Null,
      lastTouchY   |-> Null,
      isPanning    |-> FALSE ]

getTouchDistance(z) ==
    IF z.touches.length < 2 THEN 0 ELSE z.touches.distance

\* the touchstart listener
touchstart(z, e) ==
    LET z0 == [z EXCEPT !.touches = e]
    IN  IF e.length = 2
        THEN [z0 EXCEPT !.lastDistance = getTouchDistance(z0),
                        !.isPanning = FALSE]
        ELSE IF e.length = 1
        THEN [z0 EXCEPT !.lastTouchY = e.clientY,
                        !.isPanning = FALSE]
        ELSE z0

\* the pan threshold of the touchmove listener, in px
PanThreshold == 20
\* the pinch sensitivity of the touchmove listener: px per zoom step
PinchSensitivity == 50

\* the touchmove listener, on s = [zoomHandler, renderer]; panned tells
\* whether it has called renderer.pan.  The zoom delta is exact when the
\* change of distance is a multiple of PinchSensitivity.
touchmove(s, e) ==
    LET z0 == [s.zoomHandler EXCEPT !.touches = e]
    IN  IF e.length = 2
        THEN LET currentDistance == getTouchDistance(z0)
                 delta == currentDistance - z0.lastDistance
             IN  [ zoomHandler |-> [z0 EXCEPT !.lastDistance = currentDistance],
                   renderer    |-> IF Truthy(z0.lastDistance)
                                   THEN zoom(s.renderer, delta \div PinchSensitivity)
                                   ELSE s.renderer,
                   panned      |-> FALSE ]
        ELSE IF e.length = 1 /\ z0.lastTouchY # Null
        THEN LET currentY == e.clientY
                 deltaY == currentY - z0.lastTouchY
                 isPanning == z0.isPanning \/ Abs(deltaY) > PanThreshold
             IN  [ zoomHandler |-> [z0 EXCEPT !.isPanning = isPanning,
                                              !.lastTouchY = currentY],
                   renderer    |-> IF isPanning THEN pan(s.renderer, deltaY)
                                   ELSE s.renderer,
                   panned      |-> isPanning ]
        ELSE [ zoomHandler |-> z0, renderer |-> s.renderer, panned |-> FALSE ]

\* the touchend listener
touchend(z) == NewZoomHandler

-----------------------------------------------------------------------------
(* VoicePitchVisualizer *)

\* the constructor and init: not running, the start overlay shown
NewApp ==
    [ isRunning        |-> FALSE,
      animationFrameId |-> Null,
      scheduled        |-> {},     \* ids of the animation frames requested
                                   \* and neither run nor cancelled
      requests         |-> 0,      \* requestAnimationFrame calls so far
      awaiting         |-> 0,      \* start() calls awaiting microphone.start()
      isActive         |-> FALSE,  \* microphone.isActive
      zoomHandler      |-> NewZoomHandler,
      overlayHidden    |-> FALSE ]

\* requestAnimationFrame(() => this.loop()), the id stored
requestAnimationFrame(a) ==
    [a EXCEPT !.requests = @ + 1,
              !.scheduled = @ \cup {a.requests + 1},
              !.animationFrameId = a.requests + 1]

\* a frequency of the detector as a frequency of the renderer
toRenderer(pitch) ==
    IF pitch = Null \/ pitch = NaN THEN pitch ELSE (pitch * 100) \div FreqScale

\* loop without the noise threshold: every buffer goes to detectPitch
loop_always(s, frame, timestamp) ==
    IF ~s.app.isRunning THEN s
    ELSE LET out == IF s.app.isActive
                    THEN detectPitch(s.detector, frame.raw)
                    ELSE [d |-> s.detector, ret |-> Null]
             r1 == IF s.app.isActive
                   THEN addPitchData(s.renderer, toRenderer(out.ret), timestamp)
                   ELSE s.renderer
         IN  [ app      |-> IF render(r1) = "done"
                            THEN requestAnimationFrame(s.app) ELSE s.app,
               renderer |-> r1,
               detector |-> out.d ]

\* loop, on the visualizer s = [app, renderer, detector]: frame.loud is
\* microphone.isAboveNoiseThreshold(0.005), frame.raw the raw estimate of
\* the buffer, timestamp the clock at the append.  An exception of render
\* ends the call before requestAnimationFrame.
loop(s, frame, timestamp) ==
    IF ~s.app.isRunning THEN s
    ELSE LET out == IF s.app.isActive /\ frame.loud
                    THEN detectPitch(s.detector, frame.raw)
                    ELSE [d |-> s.detector, ret |-> Null]
             r1 == IF s.app.isActive
                   THEN addPitchData(s.renderer, toRenderer(out.ret), timestamp)
                   ELSE s.renderer
         IN  [ app      |-> IF render(r1) = "done"
                            THEN requestAnimationFrame(s.app) ELSE s.app,
               renderer |-> r1,
               detector |-> out.d ]

\* stop: cancelAnimationFrame(animationFrameId), microphone.stop()
stop(a) ==
    [a EXCEPT !.isRunning = FALSE,
              !.scheduled = IF Truthy(a.animationFrameId)
                            THEN @ \ {a.animationFrameId} ELSE @,
              !.isActive = FALSE]

-----------------------------------------------------------------------------
(* History of the run *)

\* the number K of samples that auto-ranging collects
AutoRangeK == NewRenderer.autoRangeSampleCount

NewHist ==
    [ op      |-> "new",   \* the last operation
      dropped |-> 0,       \* samples the last operation removed from the window
      unset   |-> FALSE,   \* the last operation unset a range bound that was set
      voiced  |-> << >>,   \* the first K + 1 voiced samples appended since the
                           \* construction or the last clearData
      gap     |-> FALSE,   \* an unvoiced sample was appended between two of the
                           \* first K voiced samples
      seen    |-> {},      \* the voiced samples appended in range mode since
                           \* it was entered or the data was cleared
      lastRet |-> Null,    \* the value detectPitch returned for the last voiced
                           \* frame since the construction or the last reset
      forgot  |-> FALSE,   \* the last reset unset a lastPitch that was set
      nulls   |-> 0,       \* the unvoiced frames since the last voiced frame
                           \* or reset, up to MaxGap (frames given by their
                           \* raw estimate only)
      input   |-> [window |-> Null, silent |-> FALSE],
                           \* the buffer of the last detectPitch call: the
                           \* length of its yinBuffer, whether all its
                           \* samples are 0
      frame   |-> [prior |-> Null, raw |-> Null, ret |-> Null, gap |-> 0],
      notes   |-> [from |-> 0, to |-> 0, range |-> << >>],
                           \* the last getNoteRange call: its arguments and
                           \* the array returned
      parsed  |-> [args |-> << >>,
                   result |-> [threw |-> FALSE, midiNumber |-> Null]],
                           \* the last parseNoteString or noteToHz call: its
                           \* arguments and its outcome
      threshold |-> <<3, 1>>,
                           \* the argument of the last setGapThreshold call
                           \* with any number, as a fraction
      touch   |-> [startY |-> Null, near |-> FALSE, panned |-> FALSE],
                           \* the one-finger touch under way: the clientY of
                           \* its touchstart, whether every touchmove since
                           \* was within PanThreshold px of it; whether the
                           \* last touchmove has called pan
      yin     |-> [buffer |-> << >>, lags |-> 0, reads |-> {},
                   cmndf |-> << >>, tau |-> -1, better |-> NaNQ],
                           \* the buffer that the steps of YIN are called
                           \* on one by one, and the last call: the length
                           \* of yinBuffer, the indices read, the cmndf
                           \* array, the period passed or returned, the
                           \* refined period
      stopped |-> FALSE,   \* stop() was called, and the start button was not
                           \* clicked since
      sine    |-> [frequency |-> Null, periods |-> 0, phase |-> 0,
                   amplitude |-> 0] ]
                           \* the sine of the last detectPitch call on a
                           \* sine: its frequency in Hz, the number of its
                           \* periods in the buffer, the index of its first
                           \* sample in the period, its amplitude
                           \* the last detectPitch call: lastRet before it, the
                           \* raw estimate of the frame, the value returned,
                           \* nulls before it

\* the history after an append of frequency that takes r0 to r1
histAppend(r0, r1, frequency) ==
    [hist EXCEPT
       !.op = "addPitchData",
       !.dropped = Len(r0.pitchData) + 1 - Len(r1.pitchData),
       !.unset = FALSE,
       !.voiced = IF Truthy(frequency) /\ Len(@) <= AutoRangeK
                  THEN Append(@, frequency) ELSE @,
       !.gap = @ \/ (~Truthy(frequency) /\ Len(hist.voiced) \in 1..(AutoRangeK - 1)),
       !.seen = IF Truthy(frequency) /\ r0.mode = "range"
                THEN @ \cup {frequency} ELSE @]

\* the history after an operation op that takes r0 to r1 and clears the data
histClear(op, r0, r1) ==
    [hist EXCEPT
       !.op = op,
       !.dropped = Len(r0.pitchData) - Len(r1.pitchData),
       !.unset = (r0.rangeMin # Null /\ r1.rangeMin = Null)
                   \/ (r0.rangeMax # Null /\ r1.rangeMax = Null),
       !.voiced = << >>,
       !.gap = FALSE,
       !.seen = {}]

\* the history after a detectPitch call on a frame of raw estimate raw, of
\* outcome out
histFrame(raw, out) ==
    [hist EXCEPT
       !.op = "detectPitch",
       !.input = NewHist.input,
       !.frame = [prior |-> hist.lastRet, raw |-> raw, ret |-> out.ret,
                  gap |-> hist.nulls],
       !.lastRet = IF out.ret # Null THEN out.ret ELSE @,
       !.nulls = IF out.ret # Null THEN 0 ELSE MathMin(@ + 1, MaxGap)]

\* the history after a gesture
histGesture(op) ==
    [hist EXCEPT !.op = op, !.dropped = 0, !.unset = FALSE]

-----------------------------------------------------------------------------
(* Initial state and operations *)

Init ==
    /\ renderer = NewRenderer
    /\ detector = NewDetector("hybrid")
    /\ now = 0
    /\ hist = NewHist
    /\ app = NewApp

\* either source file of the detector is the one loaded
InitDetect ==
    /\ renderer = NewRenderer
    /\ detector \in {NewDetector("hybrid"), NewDetector("yin")}
    /\ now = 0
    /\ hist = NewHist
    /\ app = NewApp

\* the view range a gesture leaves is centred within MaxDrift semitones of
\* the initial centre
InBox(r) ==
    Abs((r.minMidiNote + r.maxMidiNote)
          - (NewRenderer.minMidiNote + NewRenderer.maxMidiNote))
      <= 2 * MaxDrift * NoteUnit

\* the loop, or any caller, appends a sample dt ms after the last reading
\* of the clock
AddPitchData(frequency, dt) ==
    /\ now' = now + dt
    /\ renderer' = addPitchData(renderer, frequency, now')
    /\ hist' = histAppend(renderer, renderer', frequency)
    /\ UNCHANGED <<detector, app>>

ClearData ==
    /\ renderer' = clearData(renderer)
    /\ hist' = histClear("clearData", renderer, renderer')
    /\ UNCHANGED <<detector, now, app>>

\* the user selects a mode (the target note select holds targetNote)
VisualModeChange(mode, targetNote) ==
    /\ renderer' = visualModeChange(renderer, mode, targetNote)
    /\ hist' = IF mode = "range"
               THEN histClear("setMode", renderer, renderer')
               ELSE [hist EXCEPT !.op = "setMode", !.seen = {}, !.dropped = 0,
                                 !.unset = renderer.rangeMin # Null
                                             \/ renderer.rangeMax # Null]
    /\ UNCHANGED <<detector, now, app>>

SetTimeWindow(seconds) ==
    /\ renderer' = setTimeWindow(renderer, seconds)
    /\ hist' = histGesture("setTimeWindow")
    /\ UNCHANGED <<detector, now, app>>

SetGapThreshold(threshold) ==
    /\ renderer' = setGapThreshold(renderer, threshold, 1)
    /\ hist' = histGesture("setGapThreshold")
    /\ UNCHANGED <<detector, now, app>>

\* a call setGapThreshold(num / den) with any number
SetGapThresholdTo(num, den) ==
    /\ renderer' = setGapThreshold(renderer, num, den)
    /\ hist' = [histGesture("setGapThreshold") EXCEPT !.threshold = <<num, den>>]
    /\ UNCHANGED <<detector, now, app>>

\* wheel or pinch
Zoom(delta) ==
    /\ renderer' = zoom(renderer, delta)
    /\ InBox(renderer')
    /\ hist' = histGesture("zoom")
    /\ UNCHANGED <<detector, now, app>>

\* shift + wheel or one-finger drag, by a delta the model represents exactly
Pan(deltaY) ==
    /\ (deltaY * (renderer.maxMidiNote - renderer.minMidiNote))
          % (Height * PanSensitivityInv) = 0
    /\ renderer' = pan(renderer, deltaY)
    /\ InBox(renderer')
    /\ hist' = histGesture("pan")
    /\ UNCHANGED <<detector, now, app>>

\* a frame whose raw estimate is raw (Null: no period) goes through
\* detectPitch, when the model represents its arithmetic exactly
DetectPitch(raw) ==
    /\ detectExact(detector, raw)
    /\ LET out == detectPitch(detector, raw)
       IN  /\ detector' = out.d
           /\ hist' = histFrame(raw, out)
    /\ UNCHANGED <<renderer, now, app>>

\* a call getNoteRange(minMidiNumber, maxMidiNumber) on whole MIDI numbers
GetNoteRange(minMidiNumber, maxMidiNumber) ==
    /\ hist' = [hist EXCEPT
                  !.op = "getNoteRange",
                  !.notes = [from  |-> minMidiNumber,
                             to    |-> maxMidiNumber,
                             range |-> getNoteRange(minMidiNumber * NoteUnit,
                                                    maxMidiNumber * NoteUnit)]]
    /\ UNCHANGED <<renderer, detector, now, app>>

\* a call parseNoteString(noteString)
ParseNoteString(noteString) ==
    /\ hist' = [hist EXCEPT
                  !.op = "parseNoteString",
                  !.parsed = [args   |-> <<noteString>>,
                              result |-> parseNoteString(noteString)]]
    /\ UNCHANGED <<renderer, detector, now, app>>

\* a call noteToHz(note, octave)
NoteToHz(note, octave) ==
    /\ hist' = [hist EXCEPT
                  !.op = "noteToHz",
                  !.parsed = [args   |-> <<note, octave>>,
                              result |-> noteToHz(note, octave)]]
    /\ UNCHANGED <<renderer, detector, now, app>>

\* One period of a sine whose samples are whole numbers, for the periods
\* of 3, 4 and 6 samples: sin(2 pi i / 4) = 0, 1, 0, -1, and
\* (2 / sqrt(3)) sin(2 pi i / 3) = 0, 1, -1,
\* (2 / sqrt(3)) sin(2 pi i / 6) = 0, 1, 1, 0, -1, -1.
sinePeriod(period) ==
    CASE period = 3 -> <<0, 1, -1>>
      [] period = 4 -> <<0, 1, 0, -1>>
      [] period = 6 -> <<0, 1, 1, 0, -1, -1>>

\* the buffer of length samples of the sine of the given period, from the
\* sample phase of the period on
sineBuffer(period, phase, amplitude, length) ==
    [i \in 1..length |->
       amplitude * sinePeriod(period)[((i - 1 + phase) % period) + 1]]

\* a new detector (lastPitch is null) gets the buffer of a sine of
\* frequency sampleRate / period, within 50 Hz and 2000 Hz, that holds
\* periods periods of it
DetectSine(period, phase, amplitude, periods) ==
    /\ detector.lastPitch = Null
    /\ detector.sampleRate % period = 0
    /\ detector.sampleRate \div period >= 50
    /\ detector.sampleRate \div period <= 2000
    /\ \E est \in {estimate(detector,
                             sineBuffer(period, phase, amplitude,
                                        periods * period))} :
         \E raw \in {rawEstimate(est)} :
           \E out \in {detectPitch(detector, raw)} :
             /\ detector' = out.d
             /\ hist' = [histFrame(raw, out) EXCEPT
                           !.op = "detectSine",
                           !.nulls = 0,
                           !.frame.gap = 0,
                           !.sine = [frequency |-> detector.sampleRate \div period,
                                     periods   |-> periods,
                                     phase     |-> phase,
                                     amplitude |-> amplitude]]
    /\ UNCHANGED <<renderer, now, app>>

\* setSmoothingFactor(factor), for a factor in tenths or NaN
SetSmoothingFactor(factor) ==
    /\ detector' = setSmoothingFactor(detector, factor)
    /\ hist' = histGesture("setSmoothingFactor")
    /\ UNCHANGED <<renderer, now, app>>

\* the sensitivity slider is moved to a value for which the threshold is
\* a whole number of hundredths
SensitivityInput(value) ==
    /\ ((value + 120) * 25) % 80 = 0
    /\ detector' = sensitivityInput(detector, value)
    /\ hist' = histGesture("sensitivity")
    /\ UNCHANGED <<renderer, now, app>>

\* a click on the start button, which the overlay shows: start() awaits
\* microphone.start()
StartClick ==
    /\ ~app.overlayHidden
    /\ app' = [app EXCEPT !.awaiting = @ + 1]
    /\ hist' = [histGesture("click") EXCEPT !.stopped = FALSE]
    /\ UNCHANGED <<renderer, detector, now>>

\* microphone.start() resolves and start() goes on: a new detector, the
\* first call of loop; the overlay is hidden unless start() threw
MicrophoneStarted(frame, dt) ==
    /\ app.awaiting > 0
    /\ now' = now + dt
    /\ \E t \in {loop([ app      |-> [app EXCEPT !.awaiting = @ - 1,
                                                  !.isActive = TRUE,
                                                  !.isRunning = TRUE],
                         renderer |-> renderer,
                         detector |-> NewDetector(detector.file) ],
                       frame, now + dt)} :
          /\ renderer' = t.renderer
          /\ detector' = t.detector
          /\ app' = [t.app EXCEPT !.overlayHidden =
                                    @ \/ render(t.renderer) = "done"]
    /\ hist' = histGesture("start")

\* the animation frame id runs: loop
AnimationFrame(id, frame, dt) ==
    /\ id \in app.scheduled
    /\ now' = now + dt
    /\ \E t \in {loop([ app      |-> [app EXCEPT !.scheduled = @ \ {id}],
                         renderer |-> renderer,
                         detector |-> detector ],
                       frame, now + dt)} :
          /\ renderer' = t.renderer
          /\ detector' = t.detector
          /\ app' = t.app
    /\ hist' = histGesture("loop")

\* stop (beforeunload, or window.pitchViz.stop())
Stop ==
    /\ app' = stop(app)
    /\ hist' = [histGesture("stop") EXCEPT !.stopped = TRUE]
    /\ UNCHANGED <<renderer, detector, now>>

\* a touchstart event on the canvas
TouchStart(e) ==
    /\ app' = [app EXCEPT !.zoomHandler = touchstart(@, e)]
    /\ hist' = [histGesture("touchstart") EXCEPT
                  !.touch = [startY |-> IF e.length = 1 THEN e.clientY ELSE Null,
                             near |-> e.length = 1, panned |-> FALSE]]
    /\ UNCHANGED <<renderer, detector, now>>

\* a touchmove event on the canvas, when the model represents the pinch
\* and the pan exactly
TouchMove(e) ==
    /\ e.length = app.zoomHandler.touches.length
    /\ \E t \in {touchmove([zoomHandler |-> app.zoomHandler,
                             renderer |-> renderer], e)} :
          /\ e.length = 2 /\ app.zoomHandler.lastDistance # Null =>
                (e.distance - app.zoomHandler.lastDistance) % PinchSensitivity = 0
          /\ t.panned =>
                ((e.clientY - app.zoomHandler.lastTouchY)
                   * (renderer.maxMidiNote - renderer.minMidiNote))
                  % (Height * PanSensitivityInv) = 0
          /\ InBox(t.renderer)
          /\ app' = [app EXCEPT !.zoomHandler = t.zoomHandler]
          /\ renderer' = t.renderer
          /\ hist' = [histGesture("touchmove") EXCEPT
                        !.touch = [@ EXCEPT
                          !.near = @ /\ e.length = 1
                                     /\ Abs(e.clientY - hist.touch.startY)
                                           <= PanThreshold,
                          !.panned = t.panned]]
    /\ UNCHANGED <<detector, now>>

\* a touchend event on the canvas
TouchEnd ==
    /\ app' = [app EXCEPT !.zoomHandler = touchend(@)]
    /\ hist' = [histGesture("touchend") EXCEPT
                  !.touch = [startY |-> Null, near |-> FALSE, panned |-> FALSE]]
    /\ UNCHANGED <<renderer, detector, now>>

\* _differenceFunction(buffer), for the buffer of the history
DifferenceFunction ==
    /\ hist' = [hist EXCEPT
                  !.op = "differenceFunction",
                  !.yin = [NewHist.yin EXCEPT
                     !.buffer = hist.yin.buffer,
                     !.lags = Cardinality(DOMAIN differenceFunction(hist.yin.buffer)),
                     !.reads = differenceReads(hist.yin.buffer)]]
    /\ UNCHANGED <<renderer, detector, now, app>>

\* _absoluteThreshold(cmndf), for the cmndf array of the buffer
AbsoluteThreshold ==
    /\ \E cmndf \in {cumulativeMeanNormalizedDifference(
                        differenceFunction(hist.yin.buffer))} :
          hist' = [hist EXCEPT
                     !.op = "absoluteThreshold",
                     !.yin = [NewHist.yin EXCEPT
                        !.buffer = hist.yin.buffer,
                        !.cmndf = cmndf,
                        !.tau = absoluteThreshold(detector, cmndf)]]
    /\ UNCHANGED <<renderer, detector, now, app>>

\* _parabolicInterpolation(cmndf, tau), for the cmndf array of the buffer
ParabolicInterpolation(tau) ==
    /\ \E cmndf \in {cumulativeMeanNormalizedDifference(
                        differenceFunction(hist.yin.buffer))} :
          /\ tau \in DOMAIN cmndf
          /\ hist' = [hist EXCEPT
                        !.op = "parabolicInterpolation",
                        !.yin = [NewHist.yin EXCEPT
                           !.buffer = hist.yin.buffer,
                           !.reads = interpolationReads(cmndf, tau),
                           !.cmndf = cmndf,
                           !.tau = tau,
                           !.better = parabolicInterpolation(cmndf, tau)]]
    /\ UNCHANGED <<renderer, detector, now, app>>

Reset ==
    /\ detector' = reset(detector)
    /\ hist' = [hist EXCEPT !.op = "reset", !.lastRet = Null,
                            !.forgot = (detector.lastPitch # Null), !.nulls = 0]
    /\ UNCHANGED <<renderer, now, app>>

-----------------------------------------------------------------------------
(* SpecView, the view range: zoom, pan, auto-range, clear and mode switch. *)
(* One voiced frequency (G4, 392 Hz) is appended every 10 s.               *)

ZoomDeltas == {-1, 1}
PanDeltas == {-Height, Height}
ViewFreqs == {39200}
ViewModes == {"normal", "range"}
ViewStep == 10 * 1000

NextView ==
    \/ \E delta \in ZoomDeltas : Zoom(delta)
    \/ \E deltaY \in PanDeltas : Pan(deltaY)
    \/ \E f \in ViewFreqs :
          now + ViewStep <= MaxViewTicks * ViewStep /\ AddPitchData(f, ViewStep)
    \/ ClearData
    \/ \E m \in ViewModes : VisualModeChange(m, "A4")

SpecView == Init /\ [][NextView]_vars

-----------------------------------------------------------------------------
(* SpecAuto, auto-ranging: an unvoiced sample, A2 (110 Hz) or A6 (1760 Hz) *)
(* is appended every 10 s, and the data may be cleared.                    *)

AutoFreqs == {Null, 11000, 176000}
AutoStep == 10 * 1000

NextAuto ==
    \/ \E f \in AutoFreqs :
          now + AutoStep <= MaxAutoTicks * AutoStep /\ AddPitchData(f, AutoStep)
    \/ ClearData

SpecAuto == Init /\ [][NextAuto]_vars

-----------------------------------------------------------------------------
(* SpecWindow, the trim of the rolling window: a voiced sample is appended *)
(* 1 s, 2.5 s or 5 s after the last one, under a time window of 5 or 10 s. *)

WindowFreqs == {22000}
WindowSteps == {1000, 2500, 5000}
WindowSeconds == {5, 10}

NextWindow ==
    \/ \E f \in WindowFreqs, dt \in WindowSteps :
          now + dt <= MaxWindowSec * 1000 /\ AddPitchData(f, dt)
    \/ \E seconds \in WindowSeconds : SetTimeWindow(seconds)
    \/ ClearData

SpecWindow == Init /\ [][NextWindow]_vars

-----------------------------------------------------------------------------
(* SpecGraph, the pitch line: a voiced or an unvoiced sample is appended   *)
(* every second, under a gap threshold of 1, 2 or 3.                       *)

GraphFreqs == {Null, 22000}
GraphStep == 1 * 1000
GapThresholds == {1, 2, 3}

NextGraph ==
    \/ \E f \in GraphFreqs :
          now + GraphStep <= MaxGraphTicks * GraphStep /\ AddPitchData(f, GraphStep)
    \/ \E threshold \in GapThresholds : SetGapThreshold(threshold)

SpecGraph == Init /\ [][NextGraph]_vars

-----------------------------------------------------------------------------
(* SpecMode, the display modes: an unvoiced sample, A3, A4 or A5 is        *)
(* appended every 5 s, the mode is selected, the data is cleared.          *)

ModeFreqs == {Null, 22000, 44000, 88000}
ModeStep == 5 * 1000
TargetNotes == {"C4", "A4"}

NextMode ==
    \/ \E f \in ModeFreqs :
          now + ModeStep <= MaxModeTicks * ModeStep /\ AddPitchData(f, ModeStep)
    \/ \E m \in Modes, note \in TargetNotes : VisualModeChange(m, note)
    \/ ClearData

SpecMode == Init /\ [][NextMode]_vars

-----------------------------------------------------------------------------
(* SpecDetect, the smoothing of the detector: frames with no period, with  *)
(* a raw estimate of 40, 55, 110, 220 or 2100 Hz, and resets.              *)

RawEstimates == {Null} \cup {hz * FreqScale : hz \in {40, 55, 110, 220, 2100}}

NextDetect ==
    \/ \E raw \in RawEstimates : DetectPitch(raw)
    \/ Reset

SpecDetect == InitDetect /\ [][NextDetect]_vars

-----------------------------------------------------------------------------
(* SpecYin, the estimator: buffers of up to MaxBuffer samples 0 or 1 go    *)
(* through detectPitch, under a sample rate (the argument of the           *)
(* constructor) so low that the search for a period, which starts at       *)
(* minTau, falls within such buffers.                                      *)

Samples == {0, 1}
Buffers == UNION {[1..n -> Samples] : n \in 0..MaxBuffer}
SampleRates == {2000, 4000}
YinDetectors ==
    {NewDetectorAt(file, sampleRate) :
       file \in {"hybrid", "yin"}, sampleRate \in SampleRates}

\* estimate(d, buffer), which does not depend on lastPitch, tabulated
estimates ==
    [d \in YinDetectors |->
       [buffer \in Buffers |-> estimate(d, buffer)] @@ << >>] @@ << >>

InitYin ==
    /\ renderer = NewRenderer
    /\ detector \in YinDetectors
    /\ now = 0
    /\ hist = NewHist
    /\ app = NewApp

\* the loop passes the buffer of the microphone to detectPitch, when the
\* model represents the arithmetic of the call exactly
DetectBuffer(buffer) ==
    \E est \in {estimates[[detector EXCEPT !.lastPitch = Null]][buffer]} :
      \E raw \in {rawEstimate(est)} :
        \E out \in {detectPitch(detector, raw)} :
          /\ IF rawExact(est) THEN TRUE ELSE unrealistic(detector, raw)
          /\ detectExact(detector, raw)
          /\ detector' = out.d
          /\ hist' = [histFrame(raw, out) EXCEPT
                        !.input = [window |-> yinLength(buffer),
                                   silent |-> \A i \in 1..Len(buffer) : buffer[i] = 0],
                        !.nulls = 0,
                        !.frame.gap = 0]
          /\ UNCHANGED <<renderer, now, app>>


NextYin ==
    \/ \E buffer \in Buffers : DetectBuffer(buffer)
    \/ Reset

SpecYin == InitYin /\ [][NextYin]_vars

-----------------------------------------------------------------------------
(* SpecLoop, the session: start, the loop with a frame below the noise     *)
(* threshold (without a period, or of 220 Hz), a loud frame without a      *)
(* period or a loud frame of 220 Hz, stop, and the gestures and settings   *)
(* between the calls of loop.                                              *)

LoopFrames ==
    { [loud |-> FALSE, raw |-> Null],
      [loud |-> FALSE, raw |-> 220 * FreqScale],
      [loud |-> TRUE, raw |-> Null],
      [loud |-> TRUE, raw |-> 220 * FreqScale] }
LoopStep == 1000 \div 60
LoopZoomDeltas == {1}
LoopPanDeltas == {Height \div 2}
LoopModes == {"range"}
LoopSeconds == {5}
LoopThresholds == {2}

\* the zoom gestures explored keep the width of the view within
\* MaxLoopWidth semitones of the constructor's
InLoopBox(r) ==
    Abs((r.maxMidiNote - r.minMidiNote)
          - (NewRenderer.maxMidiNote - NewRenderer.minMidiNote))
      <= MaxLoopWidth * NoteUnit

NextLoop ==
    \/ app.awaiting < MaxStarts /\ StartClick
    \/ \E frame \in LoopFrames :
          now + LoopStep <= MaxLoopTicks * LoopStep
            /\ MicrophoneStarted(frame, LoopStep)
    \/ \E id \in app.scheduled, frame \in LoopFrames :
          now + LoopStep <= MaxLoopTicks * LoopStep
            /\ AnimationFrame(id, frame, LoopStep)
    \/ Stop
    \/ \E delta \in LoopZoomDeltas : Zoom(delta) /\ InLoopBox(renderer')
    \/ \E deltaY \in LoopPanDeltas : Pan(deltaY)
    \/ \E m \in LoopModes : VisualModeChange(m, "A4")
    \/ ClearData
    \/ \E seconds \in LoopSeconds : SetTimeWindow(seconds)
    \/ \E threshold \in LoopThresholds : SetGapThreshold(threshold)

SpecLoop == Init /\ [][NextLoop]_vars

-----------------------------------------------------------------------------
(* SpecNotes, the note converter: getNoteRange on every pair of whole MIDI *)
(* numbers within -MaxNote..MaxNote.                                       *)

NoteNumbers == (-MaxNote)..MaxNote

NextNotes ==
    \E minMidiNumber \in NoteNumbers, maxMidiNumber \in NoteNumbers :
      GetNoteRange(minMidiNumber, maxMidiNumber)

SpecNotes == Init /\ [][NextNotes]_vars

-----------------------------------------------------------------------------
(* SpecParse, the note-to-frequency path of the converter: parseNoteString *)
(* on every string of at most MaxNoteString characters of NoteChars, and   *)
(* noteToHz on names in and out of NOTE_NAMES.                             *)

NoteChars == {"A", "B", "E", "H", "a", "#", "4", "0"}
NoteStrings == UNION {[1..n -> NoteChars] : n \in 0..MaxNoteString}
NoteInputs == {"A", "A#", "C", "E#", "B#", "H", "a", "Bb", "", "A4"}
OctaveInputs == {-1, 0, 4}

NextParse ==
    \/ \E noteString \in NoteStrings : ParseNoteString(noteString)
    \/ \E note \in NoteInputs, octave \in OctaveInputs : NoteToHz(note, octave)

SpecParse == Init /\ [][NextParse]_vars

-----------------------------------------------------------------------------
(* SpecSine, the estimator on pure sines: a new detector of either source  *)
(* file, at 3000, 6000 or 8000 samples per second, gets 4 to MaxPeriods    *)
(* periods of a sine of 3, 4 or 6 samples per period.                      *)

SinePeriods == {3, 4, 6}
SinePhases == {0, 1}
SineAmplitudes == {1, 2}
SineRates == {3000, 6000, 8000}
SineDetectors ==
    {NewDetectorAt(file, sampleRate) :
       file \in {"hybrid", "yin"}, sampleRate \in SineRates}

InitSine ==
    /\ renderer = NewRenderer
    /\ detector \in SineDetectors
    /\ now = 0
    /\ hist = NewHist
    /\ app = NewApp

NextSine ==
    \/ \E period \in SinePeriods, phase \in SinePhases,
          amplitude \in SineAmplitudes, periods \in 4..MaxPeriods :
          DetectSine(period, phase, amplitude, periods)
    \/ Reset

SpecSine == InitSine /\ [][NextSine]_vars

-----------------------------------------------------------------------------
(* SpecTune, the settings of the detector between frames: frames with no   *)
(* period or a raw estimate of 110 or 220 Hz, setSmoothingFactor with a     *)
(* factor of -1, 1.5 or NaN, the sensitivity slider at -120 or -40, and    *)
(* resets.                                                                 *)

TuneEstimates == {Null, 110 * FreqScale, 220 * FreqScale}
TuneFactors == {-10, 15, NaN}
TuneSensitivities == {-120, -40}

NextTune ==
    \/ \E raw \in TuneEstimates : DetectPitch(raw)
    \/ \E factor \in TuneFactors : SetSmoothingFactor(factor)
    \/ \E value \in TuneSensitivities : SensitivityInput(value)
    \/ Reset

SpecTune == InitDetect /\ [][NextTune]_vars

-----------------------------------------------------------------------------
(* SpecGap, the gap threshold: setGapThreshold with the wholes, the halves *)
(* and the quarters within -MaxThreshold and MaxThreshold, between appends *)
(* of a voiced or an unvoiced sample every second.                         *)

ThresholdDens == {1, 2, 4}

NextGap ==
    \/ \E f \in GraphFreqs :
          now + GraphStep <= MaxGapTicks * GraphStep /\ AddPitchData(f, GraphStep)
    \/ \E den \in ThresholdDens :
          \E num \in (-MaxThreshold * den)..(MaxThreshold * den) :
            SetGapThresholdTo(num, den)

SpecGap == Init /\ [][NextGap]_vars

-----------------------------------------------------------------------------
(* SpecClear, clearData: an unvoiced sample or A3 is appended every 5 s,   *)
(* the data is cleared, the mode is selected, the time window and the gap  *)
(* threshold are set.                                                      *)

ClearFreqs == {Null, 22000}
ClearStep == 5 * 1000
ClearSeconds == {5}
ClearThresholds == {2}

NextClear ==
    \/ \E f \in ClearFreqs :
          now + ClearStep <= MaxClearTicks * ClearStep /\ AddPitchData(f, ClearStep)
    \/ ClearData
    \/ \E m \in Modes : VisualModeChange(m, "C4")
    \/ \E seconds \in ClearSeconds : SetTimeWindow(seconds)
    \/ \E threshold \in ClearThresholds : SetGapThreshold(threshold)

SpecClear == Init /\ [][NextClear]_vars

-----------------------------------------------------------------------------
(* SpecRate, the size of the rolling window: A3 is appended every 8 ms,    *)
(* the period of the animation frames of a 120 Hz display; the time window *)
(* is set to 1 s or 2 s and the data is cleared.                           *)

RateFreqs == {22000}
RateStep == 1000 \div 120
RateSeconds == {1, 2}

NextRate ==
    \/ \E f \in RateFreqs :
          now + RateStep <= MaxRateTicks * RateStep /\ AddPitchData(f, RateStep)
    \/ \E seconds \in RateSeconds : SetTimeWindow(seconds)
    \/ ClearData

SpecRate == Init /\ [][NextRate]_vars

-----------------------------------------------------------------------------
(* SpecStart, the start button: it is clicked, again while start() awaits  *)
(* the microphone, the calls of start() go on, the animation frames run,   *)
(* the session is stopped.                                                 *)

NextStart ==
    \/ app.awaiting < MaxPending /\ StartClick
    \/ \E frame \in LoopFrames :
          now + LoopStep <= MaxStartTicks * LoopStep
            /\ MicrophoneStarted(frame, LoopStep)
    \/ \E id \in app.scheduled, frame \in LoopFrames :
          now + LoopStep <= MaxStartTicks * LoopStep
            /\ AnimationFrame(id, frame, LoopStep)
    \/ Stop

SpecStart == Init /\ [][NextStart]_vars

-----------------------------------------------------------------------------
(* SpecSeconds, the arguments of setTimeWindow: the time window is set to  *)
(* a negative number, to zero, to numbers between and beyond 5 and 30      *)
(* seconds, while A3 or an unvoiced sample is appended every second.       *)

SecondsFreqs == {Null, 22000}
SecondsStep == 1 * 1000
SecondsGiven == {-5, 0, 3, 5, 30, 45}

NextSeconds ==
    \/ \E f \in SecondsFreqs :
          now + SecondsStep <= MaxSecondsTicks * SecondsStep
            /\ AddPitchData(f, SecondsStep)
    \/ \E seconds \in SecondsGiven : SetTimeWindow(seconds)

SpecSeconds == Init /\ [][NextSeconds]_vars

-----------------------------------------------------------------------------
(* SpecTouch, the touch gestures: the wheel zooms out, one finger goes     *)
(* down at 380, 400 or 420 px and moves between these, two fingers go down *)
(* 100 or 150 px apart and pinch, the fingers are lifted.                  *)

TouchYs == {380, 400, 420}
TouchDistances == {100, 150}
TouchEvents ==
    {[length |-> 1, clientY |-> y, distance |-> 0] : y \in TouchYs}
      \cup {[length |-> 2, clientY |-> 400, distance |-> d] : d \in TouchDistances}
WheelDeltas == {-1}

NextTouch ==
    \/ \E delta \in WheelDeltas : Zoom(delta)
    \/ \E e \in TouchEvents : TouchStart(e)
    \/ \E e \in TouchEvents : TouchMove(e)
    \/ TouchEnd

SpecTouch == Init /\ [][NextTouch]_vars

-----------------------------------------------------------------------------
(* SpecSearch, the steps of YIN one by one, on a buffer of SpecYin or on   *)
(* one of two buffers of a rounded sine wave, under the thresholds of the  *)
(* constructors and under the threshold 0.30 of a sensitivity of -120 dB.  *)

LongBuffers ==
    { <<1, 0, -1, -1, 1, 1, 0, -1, 0, 1, 0, -1>>,
      <<2, 0, -2, 0, 2, 1, -1, -2, 1, 2, 0, -2, 0, 2>> }
SearchBuffers == Buffers \cup LongBuffers
SearchSensitivities == {-120}

\* either detector at a low sample rate, and a buffer
InitSearch ==
    /\ renderer = NewRenderer
    /\ detector \in YinDetectors
    /\ now = 0
    /\ hist \in {[NewHist EXCEPT !.yin.buffer = buffer] : buffer \in SearchBuffers}
    /\ app = NewApp

NextSearch ==
    \/ DifferenceFunction
    \/ AbsoluteThreshold
    \/ \E tau \in 0..(MaxBuffer - 1) : ParabolicInterpolation(tau)
    \/ \E value \in SearchSensitivities : SensitivityInput(value)

SpecSearch == InitSearch /\ [][NextSearch]_vars

-----------------------------------------------------------------------------
(* SpecFrames, the frames by their raw estimate: no period, 40, 220 or     *)
(* 2100 Hz, or NaN, the raw estimate of a frame whose interpolation is     *)
(* 0 / 0 (cmndf[tau - 1] = cmndf[tau] = cmndf[tau + 1]) or reads a NaN     *)
(* entry of cmndf; and resets.                                             *)

FrameEstimates == {Null, NaN} \cup {hz * FreqScale : hz \in {40, 220, 2100}}

NextFrames ==
    \/ \E raw \in FrameEstimates : DetectPitch(raw)
    \/ Reset

SpecFrames == InitDetect /\ [][NextFrames]_vars

-----------------------------------------------------------------------------
(* Properties *)

Width == renderer.maxMidiNote - renderer.minMidiNote

\* the MIDI number, rounded, of a frequency of the renderer
NoteOf(frequency) == RoundHzToMidi(frequency, 1)

LastSample == renderer.pitchData[Len(renderer.pitchData)]

\* C1: in every state reachable through zoom, pan, auto-range, clearData and
\* mode switches from the view 48..84, the width of the view range is at
\* least 6 and at most 120 semitones.
C1_WidthWithinClamp ==
    /\ 6 * NoteUnit <= Width
    /\ Width <= 120 * NoteUnit

\* a zoom out has just left the view range at the upper clamp, 120 semitones
C1_Witness ==
    /\ hist.op = "zoom"
    /\ Width = 120 * NoteUnit

\* C2: once auto-ranging has fired, no append, voiced or unvoiced, changes
\* the view range or leaves the state Ranged; so an append changes the view
\* range only from the state Collecting, which a ranged engine reaches only
\* by clearData.
C2_RangedUntilClear ==
    [][(hist'.op = "addPitchData" /\ renderer.hasAutoRanged)
         => /\ renderer'.minMidiNote = renderer.minMidiNote
            /\ renderer'.maxMidiNote = renderer.maxMidiNote
            /\ renderer'.hasAutoRanged]_vars

\* a voiced sample above the view range has been appended after auto-ranging
C2_Witness ==
    /\ hist.op = "addPitchData"
    /\ renderer.hasAutoRanged
    /\ Len(hist.voiced) = 11
    /\ Truthy(LastSample.frequency)
    /\ NoteOf(LastSample.frequency) * NoteUnit > renderer.maxMidiNote

\* C3: the engine is Ranged exactly when at least 10 voiced samples have
\* been appended since the construction or the last clear (unvoiced samples
\* do not count), and auto-ranging has set min_note = round(m - 18) and
\* max_note = round(m + 18) for m the MIDI number of the mean of the first
\* 10 of them, a width of 36 semitones.
C3_AutoRangeAtTenth ==
    /\ renderer.hasAutoRanged <=> Len(hist.voiced) >= 10
    /\ renderer.hasAutoRanged =>
         LET m == RoundHzToMidi(SeqSum(SubSeq(hist.voiced, 1, 10)), 10)
         IN  /\ renderer.minMidiNote = (m - 18) * NoteUnit
             /\ renderer.maxMidiNote = (m + 18) * NoteUnit
             /\ Width = 36 * NoteUnit

\* the tenth voiced sample has just been appended, after unvoiced samples
\* in between, and the ten samples are not all of one frequency
C3_Witness ==
    /\ hist.op = "addPitchData"
    /\ renderer.hasAutoRanged
    /\ Len(hist.voiced) = 10
    /\ hist.gap
    /\ \E i, j \in 1..10 : hist.voiced[i] # hist.voiced[j]

\* C4: in every state with has_ranged = true the pending samples are
\* discarded (pending_samples is empty).
C4_PendingDiscarded ==
    renderer.hasAutoRanged => renderer.autoRangeSamples = << >>

\* C5: after an append at time now, every sample retained in the rolling
\* window has timestamp > now - time_window.
C5_RetainedWithinWindow ==
    hist.op = "addPitchData" =>
      \A i \in 1..Len(renderer.pitchData) :
        renderer.pitchData[i].timestamp > now - renderer.timeWindow * 1000

\* an append has just trimmed samples and kept more than the new one
C5_Witness ==
    /\ hist.op = "addPitchData"
    /\ hist.dropped > 0
    /\ Len(renderer.pitchData) >= 2

Voiced == {i \in 1..Len(renderer.pitchData) :
             Truthy(renderer.pitchData[i].frequency)}

\* voiced samples with no voiced sample between them
AdjacentVoiced(i, j) ==
    /\ i \in Voiced /\ j \in Voiced /\ i < j
    /\ \A k \in Voiced : ~(i < k /\ k < j)

\* the samples of indices i and j are on one stroked path
SameSegment(i, j) ==
    LET paths == drawPitchGraph(renderer)
    IN  \E p \in 1..Len(paths) :
          /\ \E a \in 1..Len(paths[p]) : paths[p][a] = i
          /\ \E b \in 1..Len(paths[p]) : paths[p][b] = j

\* C6: when the line is drawn from the rolling window, every voiced sample
\* is on a stroked path, and two voiced samples with no voiced sample
\* between them are on the same path if and only if fewer than
\* gap_threshold unvoiced samples lie between them.
C6_GapTolerance ==
    Len(renderer.pitchData) >= 2 =>
      /\ \A i \in Voiced : SameSegment(i, i)
      /\ \A i, j \in Voiced :
           AdjacentVoiced(i, j) =>
             (SameSegment(i, j) <=> j - i - 1 < renderer.gapThreshold)

\* the window holds a tolerated gap and a gap that breaks the line
C6_Witness ==
    /\ \E i, j \in Voiced :
         AdjacentVoiced(i, j) /\ j - i - 1 >= 1 /\ SameSegment(i, j)
    /\ \E i, j \in Voiced : AdjacentVoiced(i, j) /\ ~SameSegment(i, j)

\* C7: selecting range mode through the mode control leaves the rolling
\* window empty and min_observed and max_observed unset.
C7_RangeEntryClears ==
    (hist.op = "setMode" /\ renderer.mode = "range") =>
      /\ renderer.pitchData = << >>
      /\ renderer.rangeMin = Null
      /\ renderer.rangeMax = Null

\* range mode has just been selected while it was active, with samples in
\* the window and the observed bounds set
C7_Witness ==
    /\ hist.op = "setMode"
    /\ renderer.mode = "range"
    /\ hist.dropped > 0
    /\ hist.unset

SetMin(S) == CHOOSE x \in S : \A y \in S : x <= y
SetMax(S) == CHOOSE x \in S : \A y \in S : x >= y

\* C8: in range mode min_observed and max_observed are the minimum and the
\* maximum of the voiced samples appended since range mode was entered or
\* the data was cleared (unset when there is none), trimmed or not.
C8_RangeAccumulates ==
    renderer.mode = "range" =>
      IF hist.seen = {}
      THEN renderer.rangeMin = Null /\ renderer.rangeMax = Null
      ELSE /\ renderer.rangeMin = SetMin(hist.seen)
           /\ renderer.rangeMax = SetMax(hist.seen)

\* an unvoiced sample has just been appended in range mode, and the window
\* no longer holds the minimum or the maximum observed
C8_Witness ==
    /\ hist.op = "addPitchData"
    /\ renderer.mode = "range"
    /\ ~Truthy(LastSample.frequency)
    /\ Cardinality(hist.seen) >= 2
    /\ \A i \in 1..Len(renderer.pitchData) :
         renderer.pitchData[i].frequency \notin {renderer.rangeMin, renderer.rangeMax}

\* C9: selecting normal or target mode changes neither the rolling window
\* nor the view range nor the auto-range state.
C9_ModeSwitchKeepsData ==
    [][(hist'.op = "setMode" /\ renderer'.mode \in {"normal", "target"})
         => /\ renderer'.pitchData = renderer.pitchData
            /\ renderer'.minMidiNote = renderer.minMidiNote
            /\ renderer'.maxMidiNote = renderer.maxMidiNote
            /\ renderer'.hasAutoRanged = renderer.hasAutoRanged
            /\ renderer'.autoRangeSamples = renderer.autoRangeSamples]_vars

\* target mode has just been selected with samples in the window and
\* pending auto-range samples
C9_Witness ==
    /\ hist.op = "setMode"
    /\ renderer.mode = "target"
    /\ renderer.pitchData # << >>
    /\ renderer.autoRangeSamples # << >>

\* the raw estimate passes the filter of the detector's source file
\* (50 Hz to 2000 Hz, from 60 Hz in the YIN-only file)
Plausible(raw) ==
    /\ raw # Null
    /\ raw >= (IF detector.file = "hybrid" THEN 50 ELSE 60) * FreqScale
    /\ raw <= 2000 * FreqScale

\* C10: for a frame with a voiced, plausible raw estimate f, detectPitch
\* returns last * alpha + f * (1 - alpha), last being the value returned
\* for the last voiced frame since the construction or the reset, and f
\* when there is none; the value returned is the new last.
C10_SmoothedOnce ==
    (hist.op = "detectPitch" /\ Plausible(hist.frame.raw)) =>
      /\ IF hist.frame.prior = Null
         THEN hist.frame.ret = hist.frame.raw
         ELSE 10 * hist.frame.ret
                = detector.smoothingFactor * hist.frame.prior
                    + (10 - detector.smoothingFactor) * hist.frame.raw
      /\ detector.lastPitch = hist.frame.ret

\* the hybrid detector has just smoothed a frame against an earlier one
C10_Witness ==
    /\ hist.op = "detectPitch"
    /\ detector.file = "hybrid"
    /\ Plausible(hist.frame.raw)
    /\ hist.frame.prior # Null
    /\ hist.frame.ret \notin {hist.frame.prior, hist.frame.raw}

\* C11: a detectPitch call that returns null (no period, or a raw estimate
\* that the filter rejects) leaves lastPitch as it was, so that lastPitch
\* is always the value returned for the last voiced frame, and a voiced
\* frame after a run of unvoiced frames is smoothed against that value.
C11_UnvoicedKeepsLast ==
    [][ /\ (hist'.op = "detectPitch" /\ hist'.frame.ret = Null)
            => detector'.lastPitch = detector.lastPitch
        /\ detector'.lastPitch = hist'.lastRet
        /\ (/\ hist'.op = "detectPitch"
            /\ hist'.frame.gap > 0
            /\ hist'.frame.ret # Null
            /\ detector.lastPitch # Null)
            => 10 * hist'.frame.ret
                 = detector.smoothingFactor * detector.lastPitch
                     + (10 - detector.smoothingFactor) * hist'.frame.raw
      ]_vars

\* a voiced frame has just been smoothed against the value returned before
\* a run of MaxGap or more unvoiced frames
C11_Witness ==
    /\ hist.op = "detectPitch"
    /\ hist.frame.gap = MaxGap
    /\ hist.frame.ret # Null
    /\ hist.frame.prior # Null
    /\ hist.frame.ret # hist.frame.raw

\* C12: a raw estimate is returned as voiced exactly when it lies within
\* 50 Hz and 2000 Hz, and as null otherwise.
C12_VoicedIffInBand ==
    (hist.op = "detectPitch" /\ hist.frame.raw # Null) =>
      (hist.frame.ret # Null
         <=> (50 * FreqScale <= hist.frame.raw
                /\ hist.frame.raw <= 2000 * FreqScale))

\* C13: reset unsets lastPitch and leaves the threshold and the smoothing
\* factor as they were; the first voiced frame after it is returned as its
\* raw estimate, whatever the frames before the reset.
C13_ResetForgets ==
    [][ /\ hist'.op = "reset"
            => /\ detector'.lastPitch = Null
               /\ detector'.threshold = detector.threshold
               /\ detector'.smoothingFactor = detector.smoothingFactor
        /\ (/\ hist.op = "reset" \/ hist.lastRet = Null
            /\ hist'.op = "detectPitch"
            /\ hist'.frame.ret # Null)
            => hist'.frame.ret = hist'.frame.raw
      ]_vars

\* the first voiced frame after a reset that unset lastPitch has been
\* returned as its raw estimate
C13_Witness ==
    /\ hist.op = "detectPitch"
    /\ hist.forgot
    /\ hist.frame.prior = Null
    /\ hist.frame.ret # Null
    /\ hist.frame.ret = hist.frame.raw

\* the last call of detectPitch, on a buffer, has returned null and has
\* left the detector as it was
UnvoicedStep ==
    hist'.frame.ret = Null /\ detector' = detector

\* C14: for a buffer of zeros of any length, detectPitch returns null and
\* leaves lastPitch as it was (every entry of the cmndf array but the first
\* is 0 / 0).
C14_SilenceUnvoiced ==
    [][ (hist'.op = "detectPitch" /\ hist'.input.silent) => UnvoicedStep ]_vars

\* a buffer of zeros long enough for the search to read the cmndf array has
\* been given to a detector whose lastPitch is set
C14_Witness ==
    /\ hist.op = "detectPitch"
    /\ hist.input.silent
    /\ hist.input.window > detector.sampleRate \div 1000 + 1
    /\ hist.frame.ret = Null
    /\ detector.lastPitch # Null

\* C15: when floor(N / 2), for a buffer of N samples, is at most the least
\* period searched, floor(sampleRate / 1000) in the hybrid detector and
\* floor(sampleRate / 2000) in the YIN-only detector, detectPitch returns
\* null and leaves lastPitch as it was, whatever the samples.
C15_ShortBufferUnvoiced ==
    [][ (/\ hist'.op = "detectPitch"
         /\ hist'.input.window # Null
         /\ hist'.input.window
              <= detector.sampleRate
                   \div (IF detector.file = "hybrid" THEN 1000 ELSE 2000))
        => UnvoicedStep ]_vars

\* a buffer with a sample that is not 0, of which at least two lags are
\* analysed but none is searched, has been given to a detector whose
\* lastPitch is set
C15_Witness ==
    /\ hist.op = "detectPitch"
    /\ hist.input.window # Null
    /\ ~hist.input.silent
    /\ hist.input.window >= 2
    /\ hist.input.window
         <= detector.sampleRate \div (IF detector.file = "hybrid" THEN 1000 ELSE 2000)
    /\ hist.frame.ret = Null
    /\ detector.lastPitch # Null

\* the width newRange that zoom computes from the width before the call,
\* for a zoom in (delta = -1) and for a zoom out (delta = 1), clamped
ScaledWidths(w) ==
    { n \in 6 * NoteUnit .. 120 * NoteUnit :
        \/ 6 * n = MathMax(36 * NoteUnit, 5 * w)
        \/ 5 * n = MathMin(600 * NoteUnit, 6 * w) }

\* C16: zoom(delta) sets the width of the view range to the width before the
\* call multiplied by 1.2^delta, clamped to 6..120 semitones, the bounds
\* not being rounded.
C16_ZoomScalesWidth ==
    [][ hist'.op = "zoom"
          => (renderer'.maxMidiNote - renderer'.minMidiNote)
               \in ScaledWidths(renderer.maxMidiNote - renderer.minMidiNote)
      ]_vars

\* C17: zoom(delta) leaves the midpoint of the view range where it was.
C17_ZoomKeepsMidpoint ==
    [][ hist'.op = "zoom"
          => renderer'.minMidiNote + renderer'.maxMidiNote
               = renderer.minMidiNote + renderer.maxMidiNote
      ]_vars

\* C18: pan(deltaY) moves both bounds of the view range by -(deltaY /
\* height) * width * 0.05, so that the width is unchanged, and a pan by
\* -deltaY then restores the view range.
C18_PanShiftsBoth ==
    [][ hist'.op = "pan"
          => \E deltaY \in PanDeltas :
               LET width == renderer.maxMidiNote - renderer.minMidiNote
                   back == pan(renderer', -deltaY)
               IN  /\ (renderer'.minMidiNote - renderer.minMidiNote)
                         * Height * PanSensitivityInv = -(deltaY * width)
                   /\ (renderer'.maxMidiNote - renderer.maxMidiNote)
                         * Height * PanSensitivityInv = -(deltaY * width)
                   /\ renderer'.maxMidiNote - renderer'.minMidiNote = width
                   /\ back.minMidiNote = renderer.minMidiNote
                   /\ back.maxMidiNote = renderer.maxMidiNote
      ]_vars

\* a pan has just moved a view range that a zoom had narrowed by a
\* fraction of a semitone
C18_Witness ==
    /\ hist.op = "pan"
    /\ Width < RangeInSemitones * NoteUnit
    /\ renderer.minMidiNote % NoteUnit # 0

\* C19: the grid of the view range holds whole MIDI numbers within the
\* range only, each with one of the 12 note names, and drawing the
\* labels does not fail.
C19_GridOfNotes ==
    LET notes == getNoteRange(renderer.minMidiNote, renderer.maxMidiNote)
    IN  /\ \A i \in 1..Len(notes) :
             /\ notes[i].midiNumber % NoteUnit = 0
             /\ notes[i].midiNumber >= renderer.minMidiNote
             /\ notes[i].midiNumber <= renderer.maxMidiNote
             /\ \E k \in 1..12 : notes[i].note = NOTE_NAMES[k]
        /\ render(renderer) = "done"

\* C20: while the session is running, a call of loop from an animation
\* frame is followed by another one: after it a call of loop is scheduled,
\* whatever the gestures, the mode switches, the clears and the settings
\* between the calls, and whatever the frames.
C20_LoopReschedules ==
    (hist.op = "loop" /\ app.isRunning) => app.scheduled # {}

\* the step is a call of loop in a running session, on the frame frame with
\* the detector d0 (the new detector when the call is the one of start)
Tick(frame, d0) ==
    \/ /\ d0 = NewDetector(detector.file)
       /\ MicrophoneStarted(frame, LoopStep)
    \/ /\ d0 = detector
       /\ app.isRunning
       /\ \E id \in app.scheduled : AnimationFrame(id, frame, LoopStep)

\* the frequency the call of loop has appended for frame with detector d0
Acquired(frame, d0) ==
    IF frame.loud THEN toRenderer(detectPitch(d0, frame.raw).ret) ELSE Null

C22_NoteRange ==
    hist.op = "getNoteRange" =>
      LET a == hist.notes.from
          b == hist.notes.to
          range == hist.notes.range
      IN  IF a <= b
          THEN /\ Len(range) = b - a + 1
               /\ \A i \in 1..Len(range) :
                    range[i].midiNumber = (a + i - 1) * NoteUnit
               /\ \A i \in 1..(Len(range) - 1) :
                    range[i].midiNumber < range[i + 1].midiNumber
          ELSE range = << >>

\* getNoteRange has returned the notes from below 0 to above 0
C22_Witness ==
    /\ hist.op = "getNoteRange"
    /\ hist.notes.from < 0
    /\ hist.notes.to > 0
    /\ Len(hist.notes.range) = hist.notes.to - hist.notes.from + 1

\* the sequence s is what is left of t when elements are removed from its
\* front
IsSuffix(s, t) ==
    /\ Len(s) <= Len(t)
    /\ s = SubSeq(t, Len(t) - Len(s) + 1, Len(t))

\* C23: pitchData lists its samples in the order of their appends, with
\* non-decreasing timestamps: a step either removes samples from the oldest
\* end, or appends one sample at the newest end and removes samples from
\* the oldest end; nothing is reordered or inserted in the middle.
C23_WindowInOrder ==
    [][ LET old == renderer.pitchData
            new == renderer'.pitchData
        IN  /\ \A i \in 1..(Len(new) - 1) :
                 new[i].timestamp <= new[i + 1].timestamp
            /\ IF hist'.op = "addPitchData"
               THEN /\ new # << >>
                    /\ new[Len(new)].timestamp = now'
                    /\ IsSuffix(new, Append(old, new[Len(new)]))
               ELSE IsSuffix(new, old)
      ]_vars

\* an append has just removed two or more of the oldest samples and kept
\* older samples in front of the new one
C23_Witness ==
    /\ hist.op = "addPitchData"
    /\ hist.dropped >= 2
    /\ Len(renderer.pitchData) >= 3

\* the samples of the sequence s
SamplesOf(s) == {s[i] : i \in 1..Len(s)}

\* C24: setTimeWindow leaves pitchData as it is; the new timeWindow is
\* applied by the trim of the next append, which keeps the samples younger
\* than the timeWindow then set; and no step brings back a sample that
\* was dropped: the samples after a step are samples before it, or the
\* sample appended.
C24_WindowAppliedAtTrim ==
    [][ LET old == renderer.pitchData
            new == renderer'.pitchData
        IN  /\ hist'.op = "setTimeWindow" => new = old
            /\ hist'.op = "addPitchData" =>
                 /\ renderer'.timeWindow = renderer.timeWindow
                 /\ new = SelectSeq(Append(old, new[Len(new)]),
                                    LAMBDA d : d.timestamp
                                       > now' - renderer.timeWindow * 1000)
            /\ hist'.op # "addPitchData" => SamplesOf(new) \subseteq SamplesOf(old)
      ]_vars

\* setTimeWindow has just shortened the window and the data still hold a
\* sample older than the new window
C24_Witness ==
    /\ hist.op = "setTimeWindow"
    /\ \E i \in 1..Len(renderer.pitchData) :
         renderer.pitchData[i].timestamp <= now - renderer.timeWindow * 1000

\* the chromatic names
Chromatic == {"C", "C#", "D", "D#", "E", "F", "F#", "G", "G#", "A", "A#", "B"}

\* the string is a letter A-G, an optional '#' and one or more decimal
\* digits, and the letter with its '#' is a chromatic name
ValidNoteString(noteString) ==
    \E name \in Chromatic :
      LET n == Len(name)
      IN  /\ n < Len(noteString)
          /\ name = IF n = 1 THEN noteString[1]
                             ELSE noteString[1] \o noteString[2]
          /\ \A i \in (n + 1)..Len(noteString) : noteString[i] \in Digits

\* C25: parseNoteString throws for every string that is not a letter A-G,
\* an optional '#' and decimal digits, and for every name outside the
\* chromatic set (E#, B#), and returns a frequency otherwise; noteToHz
\* throws for every note that is not a chromatic name.
C25_InvalidNoteThrows ==
    /\ hist.op = "parseNoteString" =>
         (hist.parsed.result.threw <=> ~ValidNoteString(hist.parsed.args[1]))
    /\ hist.op = "noteToHz" =>
         (hist.parsed.result.threw <=> hist.parsed.args[1] \notin Chromatic)

\* parseNoteString has thrown for E#4, which the pattern matches
C25_Witness ==
    /\ hist.op = "parseNoteString"
    /\ hist.parsed.args[1] = <<"E", "#", "4">>
    /\ hist.parsed.result.threw

\* C26: for a pure sine of frequency f, 50 <= f <= 2000 Hz, in a buffer of
\* 4 periods or more, a new detector returns a frequency within 1% of f
\* (the frequency returned is rounded to 1/FreqScale Hz).
C26_SineWithinOnePercent ==
    (/\ hist.op = "detectSine"
     /\ hist.sine.frequency >= 50
     /\ hist.sine.frequency <= 2000
     /\ hist.sine.periods >= 4
     /\ hist.frame.prior = Null) =>
      /\ hist.frame.ret # Null
      /\ 100 * Abs(hist.frame.ret - hist.sine.frequency * FreqScale)
           <= hist.sine.frequency * FreqScale

\* C27: a change of the threshold or of the smoothing factor, at any point
\* between two frames, leaves lastPitch as it is, and setSmoothingFactor
\* leaves the smoothing factor within 0 and 1 for every argument.
C27_SettingsKeepLastPitch ==
    [][ /\ hist'.op \in {"setSmoothingFactor", "sensitivity"}
            => detector'.lastPitch = detector.lastPitch
        /\ hist'.op = "setSmoothingFactor"
            => /\ detector'.smoothingFactor >= 0
               /\ detector'.smoothingFactor <= SmoothingDen
      ]_vars

\* C28: after any sequence of setGapThreshold calls with zero, negative,
\* fractional or whole arguments, gapThreshold is a whole number >= 1, the
\* nearest to the last argument when that is 1 or more.
C28_GapThresholdAtLeastOne ==
    /\ renderer.gapThreshold \in Nat
    /\ renderer.gapThreshold >= 1
    /\ hist.threshold[1] >= hist.threshold[2] =>
         /\ 2 * Abs(renderer.gapThreshold * hist.threshold[2] - hist.threshold[1])
              <= hist.threshold[2]

\* setGapThreshold has just been called with a negative fraction, after an
\* append
C28_Witness ==
    /\ hist.op = "setGapThreshold"
    /\ hist.threshold[1] < 0
    /\ hist.threshold[2] > 1
    /\ hist.threshold[1] % hist.threshold[2] # 0
    /\ renderer.pitchData # << >>

\* C29: clearData empties pitchData, unsets rangeMin and rangeMax, and
\* returns auto-ranging to collecting with no sample collected, so that
\* auto-ranging fires again at the 10th voiced sample appended after it;
\* it leaves the view range, the mode, the target frequency, the time
\* window and the gap threshold as they were.
C29_ClearRestartsAutoRange ==
    [][ /\ hist'.op = "clearData" =>
             /\ renderer'.pitchData = << >>
             /\ renderer'.rangeMin = Null
             /\ renderer'.rangeMax = Null
             /\ ~renderer'.hasAutoRanged
             /\ renderer'.autoRangeSamples = << >>
             /\ renderer'.minMidiNote = renderer.minMidiNote
             /\ renderer'.maxMidiNote = renderer.maxMidiNote
             /\ renderer'.mode = renderer.mode
             /\ renderer'.targetFrequency = renderer.targetFrequency
             /\ renderer'.timeWindow = renderer.timeWindow
             /\ renderer'.gapThreshold = renderer.gapThreshold
        /\ renderer'.hasAutoRanged <=> Len(hist'.voiced) >= AutoRangeK
      ]_vars

\* clearData has just emptied the data and unset the range of an engine in
\* range mode whose view auto-ranging had set, with a time window and a
\* gap threshold that are not the initial ones
C29_Witness ==
    /\ hist.op = "clearData"
    /\ hist.dropped > 0
    /\ hist.unset
    /\ renderer.mode = "range"
    /\ renderer.minMidiNote # NewRenderer.minMidiNote
    /\ renderer.timeWindow # NewRenderer.timeWindow
    /\ renderer.gapThreshold # NewRenderer.gapThreshold

\* C30: the number of retained samples never exceeds maxDataPoints,
\* whatever the rate at which samples are appended.
C30_WindowBounded ==
    Len(renderer.pitchData) <= renderer.maxDataPoints

\* C31: once stop() has been called, no later call of loop appends a sample
\* or renders, also when stop() was called while start() was still awaiting
\* the microphone.
C31_StoppedIsNotTicked ==
    [][ (hist.stopped /\ hist'.op \in {"start", "loop"}) =>
          /\ renderer'.pitchData = renderer.pitchData
          /\ ~app'.isRunning
      ]_vars

\* C37: at most one loop is active at any time: a click on the start
\* button while a start is pending or a session is running never leaves
\* two calls of loop scheduled, each of which appends a sample and
\* schedules itself again.
C37_OneLoop ==
    Cardinality(app.scheduled) <= 1

\* C32: after any setTimeWindow call the time window lies within 5 to 30
\* seconds, out-of-range arguments being clamped, so it is never zero or
\* negative.
C32_TimeWindowClamped ==
    hist.op = "setTimeWindow" =>
      (renderer.timeWindow >= 5 /\ renderer.timeWindow <= 30)

\* C38: in every reachable state rangeMin and rangeMax are both unset, or
\* both set with rangeMin <= rangeMax; and both are unset whenever the mode
\* is not the range mode.
C38_RangeBoundsPaired ==
    /\ renderer.rangeMin = Null <=> renderer.rangeMax = Null
    /\ renderer.rangeMin # Null => renderer.rangeMin <= renderer.rangeMax
    /\ renderer.mode # "range" =>
          (renderer.rangeMin = Null /\ renderer.rangeMax = Null)

\* in range mode, a voiced sample below the samples seen so far has just
\* lowered rangeMin under rangeMax
C38_Witness ==
    /\ hist.op = "addPitchData"
    /\ renderer.mode = "range"
    /\ Cardinality(hist.seen) >= 2
    /\ renderer.rangeMin < renderer.rangeMax
    /\ renderer.pitchData[Len(renderer.pitchData)].frequency = renderer.rangeMin

\* C35: during a one-finger touch, pan is never called as long as the
\* finger has stayed within 20 px of its touchstart position, whatever the
\* sequence of touchmove events.
C35_NoPanNearStart ==
    (hist.op = "touchmove" /\ hist.touch.panned) => ~hist.touch.near

\* the indices of the cmndf array of the last search, from the lower bound
\* of the detector's source file on, whose value is below the threshold
BelowThreshold ==
    {t \in DOMAIN hist.yin.cmndf :
       /\ t >= detector.sampleRate \div (IF detector.file = "hybrid" THEN 1000 ELSE 2000)
       /\ Less(hist.yin.cmndf[t], <<detector.threshold, 100>>)}

\* a >= b of two values of the cmndf array
AtLeast(a, b) == a[2] # 0 /\ b[2] # 0 /\ a[1] * b[2] >= b[1] * a[2]

\* C33: the absolute-threshold search returns 'no period' exactly when no
\* index from the lower bound floor(sampleRate / maxFreqHz) on is below the
\* threshold; otherwise it returns an index tau of BelowThreshold that is
\* the last index or has cmndf(tau + 1) >= cmndf(tau), and cmndf is
\* strictly decreasing from the first index of BelowThreshold to tau.
C33_ThresholdSearch ==
    hist.op = "absoluteThreshold" =>
      LET cmndf == hist.yin.cmndf
          tau == hist.yin.tau
      IN  IF BelowThreshold = {} THEN tau = -1
          ELSE LET t0 == SetMin(BelowThreshold)
               IN  /\ tau \in BelowThreshold
                   /\ (tau + 1) \notin DOMAIN cmndf
                         \/ AtLeast(cmndf[tau + 1], cmndf[tau])
                   /\ \A t \in t0..(tau - 1) : Less(cmndf[t + 1], cmndf[t])

\* the search has gone down from the first index below the threshold to a
\* local minimum that is not the last index
C33_Witness ==
    /\ hist.op = "absoluteThreshold"
    /\ BelowThreshold # {}
    /\ hist.yin.tau > SetMin(BelowThreshold)
    /\ (hist.yin.tau + 1) \in DOMAIN hist.yin.cmndf

\* C34: for a buffer of N >= 2 samples, N even or odd, the difference
\* function analyses exactly floor(N / 2) lags and reads sample indices
\* below N only; parabolic interpolation reads indices of cmndf within 0
\* and floor(N / 2) - 1 only, and returns tau as it is when tau is 0 or the
\* last index.
C34_ReadsInBounds ==
    /\ (hist.op = "differenceFunction" /\ Len(hist.yin.buffer) >= 2) =>
          /\ hist.yin.lags = Len(hist.yin.buffer) \div 2
          /\ hist.yin.reads \subseteq 0..(Len(hist.yin.buffer) - 1)
    /\ (hist.op = "parabolicInterpolation" /\ Len(hist.yin.buffer) >= 2) =>
          /\ hist.yin.reads \subseteq 0..(Len(hist.yin.buffer) \div 2 - 1)
          /\ hist.yin.tau \in {0, Len(hist.yin.buffer) \div 2 - 1} =>
                hist.yin.better = <<hist.yin.tau, 1>>

\* the difference function has read the last sample but one of a buffer of
\* odd length, whose last sample it does not read
C34_Witness ==
    /\ hist.op = "differenceFunction"
    /\ Len(hist.yin.buffer) % 2 = 1
    /\ Len(hist.yin.buffer) >= 5
    /\ (Len(hist.yin.buffer) - 3) \in hist.yin.reads
    /\ (Len(hist.yin.buffer) - 1) \notin hist.yin.reads

\* a finite frequency within 50 Hz and 2000 Hz
InBand(pitch) ==
    pitch # NaN /\ 50 * FreqScale <= pitch /\ pitch <= 2000 * FreqScale

\* C36: every value returned by detectPitch is null or a finite frequency
\* within 50 Hz and 2000 Hz, and lastPitch is always unset or such a
\* frequency, also after a frame whose interpolation denominator is zero:
\* no frame makes the later outputs non-numeric.
C36_OutputsFinite ==
    /\ hist.op = "detectPitch" =>
          (hist.frame.ret = Null \/ InBand(hist.frame.ret))
    /\ detector.lastPitch = Null \/ InBand(detector.lastPitch)

=============================================================================
